---- MODULE Spec2Model ----
(***************************************************************************)
(* A model of the emulite core: the per-architecture instruction           *)
(* interpreters (src/src/cpu), the memory bus (src/src/memory) and the     *)
(* platform orchestration loop (src/src/platforms).                        *)
(*                                                                         *)
(* 32-bit machine words are pairs <<hi, lo>> of 16-bit halves, so that     *)
(* every u32 of the program is represented exactly.  Memories are sparse:  *)
(* a function from the indices that hold a non-zero byte to that byte;     *)
(* every other index of the Vec<u8> holds 0.                               *)
(***************************************************************************)
EXTENDS Integers, Sequences, FiniteSets, TLC

VARIABLES build, cpu, op, bus, plat, calls

vars == <<build, cpu, op, bus, plat, calls>>

(***************************************************************************)
(* Machine words                                                           *)
(***************************************************************************)
H16 == 2 ^ 16

Hi(w) == w[1]
Lo(w) == w[2]
W0 == <<0, 0>>
WInt(n) == <<n \div H16, n % H16>>

\* u32::wrapping_add
WAdd(a, b) ==
  LET s == Lo(a) + Lo(b)
  IN  <<(Hi(a) + Hi(b) + (s \div H16)) % H16, s % H16>>

\* whether a + b leaves the range of u32 (the `+` operator panics on it when
\* overflow checks are compiled in, and wraps otherwise)
WAddOverflows(a, b) == Hi(a) + Hi(b) + ((Lo(a) + Lo(b)) \div H16) >= H16

WNot(a) == <<65535 - Hi(a), 65535 - Lo(a)>>
WNeg(a) == WAdd(WNot(a), <<0, 1>>)
\* u32::wrapping_sub
WSub(a, b) == WAdd(a, WNeg(b))
WLt(a, b) == Hi(a) < Hi(b) \/ (Hi(a) = Hi(b) /\ Lo(a) < Lo(b))
WSubOverflows(a, b) == WLt(a, b)

\* byte k (0 = least significant) of a word, as u32::to_le_bytes gives it
WByte(w, k) ==
  CASE k = 0 -> Lo(w) % 256
    [] k = 1 -> Lo(w) \div 256
    [] k = 2 -> Hi(w) % 256
    [] k = 3 -> Hi(w) \div 256

\* u32::from_le_bytes([b0, b1, b2, b3])
FromLeBytes(b0, b1, b2, b3) == <<b3 * 256 + b2, b1 * 256 + b0>>
\* u32::from_be_bytes([b0, b1, b2, b3])
FromBeBytes(b0, b1, b2, b3) == <<b0 * 256 + b1, b2 * 256 + b3>>

RECURSIVE And16(_, _, _)
And16(a, b, n) ==
  IF n = 0 THEN 0
  ELSE (a % 2) * (b % 2) + 2 * And16(a \div 2, b \div 2, n - 1)

RECURSIVE Or16(_, _, _)
Or16(a, b, n) ==
  IF n = 0 THEN 0
  ELSE (IF (a % 2) + (b % 2) > 0 THEN 1 ELSE 0) + 2 * Or16(a \div 2, b \div 2, n - 1)

RECURSIVE Xor16(_, _, _)
Xor16(a, b, n) ==
  IF n = 0 THEN 0
  ELSE ((a + b) % 2) + 2 * Xor16(a \div 2, b \div 2, n - 1)

WAnd(a, b) == <<And16(Hi(a), Hi(b), 16), And16(Lo(a), Lo(b), 16)>>
WOr(a, b) == <<Or16(Hi(a), Hi(b), 16), Or16(Lo(a), Lo(b), 16)>>
WXor(a, b) == <<Xor16(Hi(a), Hi(b), 16), Xor16(Lo(a), Lo(b), 16)>>

\* bit i (0..31) of a word
WBit(w, i) ==
  IF i < 16 THEN (Lo(w) \div (2 ^ i)) % 2 ELSE (Hi(w) \div (2 ^ (i - 16))) % 2

RECURSIVE SumBits(_, _, _)
\* the 16-bit number whose bit j is f[from + j], j in 0..n-1
SumBits(f, from, n) ==
  IF n = 0 THEN 0
  ELSE f[from] + 2 * SumBits(f, from + 1, n - 1)

WFromBits(f) == <<SumBits(f, 16, 16), SumBits(f, 0, 16)>>
\* x << n and x >> n on u32, 0 <= n <= 31
WShl(w, n) == WFromBits([i \in 0..31 |-> IF i >= n THEN WBit(w, i - n) ELSE 0])
WShr(w, n) == WFromBits([i \in 0..31 |-> IF i + n <= 31 THEN WBit(w, i + n) ELSE 0])
\* (x as i32 >> n) as u32
WSar(w, n) == WFromBits([i \in 0..31 |-> IF i + n <= 31 THEN WBit(w, i + n) ELSE WBit(w, 31)])
\* set or clear the bits of mask (the |= mask / &= !mask pair of the sources)
WSetMask(w, mask, on) == IF on THEN WOr(w, mask) ELSE WAnd(w, WNot(mask))
WTest(w, mask) == WAnd(w, mask) # W0
\* v as i16 as u32, v as i8 as u32
SignExt16(v) == IF v >= 32768 THEN <<65535, v>> ELSE <<0, v>>
SignExt8(v) == IF v >= 128 THEN <<65535, 65280 + v>> ELSE <<0, v>>
\* (x as i32) < (y as i32)
WLtSigned(a, b) ==
  LET na == Hi(a) >= 32768
      nb == Hi(b) >= 32768
  IN  IF na # nb THEN na ELSE WLt(a, b)

\* u32::wrapping_mul, by byte-wise long multiplication
WMul(a, b) ==
  LET p0 == WByte(a, 0) * WByte(b, 0)
      p1 == WByte(a, 0) * WByte(b, 1) + WByte(a, 1) * WByte(b, 0)
      p2 == WByte(a, 0) * WByte(b, 2) + WByte(a, 1) * WByte(b, 1)
            + WByte(a, 2) * WByte(b, 0)
      p3 == WByte(a, 0) * WByte(b, 3) + WByte(a, 1) * WByte(b, 2)
            + WByte(a, 2) * WByte(b, 1) + WByte(a, 3) * WByte(b, 0)
  IN  WAdd(WAdd(WInt(p0), WInt(p1 * 256)),
           WAdd(<<p2 % H16, 0>>, <<(p3 % 256) * 256, 0>>))

RECURSIVE WDivMod(_, _, _, _, _)
\* binary long division of a by b # 0, from bit i down to bit 0
WDivMod(a, b, i, q, r) ==
  IF i < 0 THEN [q |-> q, r |-> r]
  ELSE LET top == WBit(r, 31)
           rs == WAdd(WAdd(r, r), <<0, WBit(a, i)>>)
           fits == top = 1 \/ ~WLt(rs, b)
       IN  WDivMod(a, b, i - 1,
                   IF fits THEN WAdd(WAdd(q, q), <<0, 1>>) ELSE WAdd(q, q),
                   IF fits THEN WSub(rs, b) ELSE rs)

\* a / b and a % b on u32, b # 0
WDiv(a, b) == WDivMod(a, b, 31, W0, W0).q
WMod(a, b) == WDivMod(a, b, 31, W0, W0).r

(***************************************************************************)
(* Sparse byte memories (Vec<u8> filled with 0 at construction)            *)
(***************************************************************************)
EmptyMem == [k \in {} |-> 0]
MemGet(m, k) == IF k \in DOMAIN m THEN m[k] ELSE 0
MemSet(m, k, v) ==
  IF v = 0
  THEN [x \in (DOMAIN m) \ {k} |-> m[x]]
  ELSE [x \in (DOMAIN m) \cup {k} |-> IF x = k THEN v ELSE m[x]]

(***************************************************************************)
(* Results of a call: r is "ok", "err" (an Err(EmuliteError) returned to   *)
(* the caller) or "panic" (the thread aborts); e names the error.          *)
(***************************************************************************)
Ok(c) == [c |-> c, r |-> "ok", e |-> <<>>]
Fail(c, e) == [c |-> c, r |-> "err", e |-> e]
Panic(c, why) == [c |-> c, r |-> "panic", e |-> <<"panic", why>>]
OkV(v) == [r |-> "ok", e |-> <<>>, v |-> v]
FailV(e) == [r |-> "err", e |-> e, v |-> 0]
PanicV(why) == [r |-> "panic", e |-> <<"panic", why>>, v |-> 0]
MemoryAccessViolation(a) == <<"MemoryAccessViolation", a>>
CpuError(msg, what) == <<"CpuError", msg, what>>

\* arithmetic overflow of +, -, += : a panic when overflow checks are compiled
\* in (the dev profile), a wrap when they are not (the release profile)
OverflowPanics == build = "debug"

(***************************************************************************)
(* CpuFlags (src/src/cpu/mod.rs)                                           *)
(***************************************************************************)
FlagNames ==
  {"carry", "zero", "interrupt_disable", "decimal", "break_command", "overflow",
   "negative", "sign", "parity", "auxiliary_carry", "extend"}

CpuFlagsDefault == [f \in FlagNames |-> FALSE]

(***************************************************************************)
(* Register names.  A &str of ASCII letters and digits is its lower-case   *)
(* spelling s together with the set caps of positions written in upper     *)
(* case; str::to_lowercase clears that set.                                *)
(***************************************************************************)
Str(s) == [s |-> s, caps |-> {}]
Caps(s, caps) == [s |-> s, caps |-> caps]
ToLower(n) == [n EXCEPT !.caps = {}]

(***************************************************************************)
(* MOS 6502 (src/src/cpu/mos6502.rs)                                       *)
(***************************************************************************)
Mos6502_new ==
  [arch |-> "6502", a |-> 0, x |-> 0, y |-> 0, sp |-> \hFF, pc |-> \hFFFC,
   flags |-> CpuFlagsDefault, memory |-> EmptyMem, cycles |-> 0,
   halted |-> FALSE, opcode |-> 0]

\* a variant of read_memory that reads the backing array below 0x0080, against
\* which C6_TiaRangeReadsZero is tested
Mos6502_read_memory_through(c, address) ==
  IF Hi(address) >= 1 THEN OkV(0)
  ELSE LET a == Lo(address)
       IN  CASE a <= \h00FF -> OkV(MemGet(c.memory, a))
             [] a >= \h0100 /\ a <= \h01FF -> OkV(MemGet(c.memory, a - \h0100))
             [] a >= \h1000 /\ a <= \h1FFF -> OkV(MemGet(c.memory, a))
             [] a >= \hF000 /\ a <= \hFFFF -> OkV(MemGet(c.memory, a))
             [] OTHER -> OkV(0)

Mos6502_read_memory(c, address) ==
  IF Hi(address) >= 1 THEN OkV(0)
  ELSE LET a == Lo(address)
       IN  CASE a <= \h007F -> OkV(0)
             [] a >= \h0080 /\ a <= \h00FF -> OkV(MemGet(c.memory, a))
             [] a >= \h0100 /\ a <= \h01FF -> OkV(MemGet(c.memory, a - \h0100))
             [] a >= \h0200 /\ a <= \h027F -> OkV(0)
             [] a >= \h0280 /\ a <= \h02FF -> OkV(0)
             [] a >= \h1000 /\ a <= \h1FFF -> OkV(MemGet(c.memory, a))
             [] a >= \hF000 /\ a <= \hFFFF -> OkV(MemGet(c.memory, a))
             [] OTHER -> OkV(0)

Mos6502_write_memory(c, address, value) ==
  IF Hi(address) >= 1 THEN Ok(c)
  ELSE LET a == Lo(address)
       IN  CASE a <= \h007F -> Ok(c)
             [] a >= \h0080 /\ a <= \h00FF ->
                  Ok([c EXCEPT !.memory = MemSet(c.memory, a, value)])
             [] a >= \h0100 /\ a <= \h01FF ->
                  Ok([c EXCEPT !.memory = MemSet(c.memory, a - \h0100, value)])
             [] a >= \h0200 /\ a <= \h027F -> Ok(c)
             [] a >= \h0280 /\ a <= \h02FF -> Ok(c)
             [] a >= \h1000 /\ a <= \h1FFF -> Ok(c)
             [] a >= \hF000 /\ a <= \hFFFF -> Ok(c)
             [] OTHER -> Ok(c)

\* address is a u16; address + 1 overflows at 0xFFFF
Mos6502_read_memory_16(c, address) ==
  IF address = \hFFFF /\ OverflowPanics THEN PanicV("attempt to add with overflow")
  ELSE LET low == MemGet(c.memory, address)
           high == MemGet(c.memory, (address + 1) % H16)
       IN  OkV(high * 256 + low)

Mos6502_update_zero_negative_flags(c, value) ==
  [c EXCEPT !.flags = [c.flags EXCEPT !.zero = (value = 0),
                                      !.negative = (value >= \h80)]]

Mos6502_execute_instruction(c) ==
  CASE c.opcode = \hA9 ->
         LET value == Mos6502_read_memory(c, WInt(c.pc)).v
             c1 == [c EXCEPT !.pc = (c.pc + 1) % H16, !.a = value]
         IN  Ok(Mos6502_update_zero_negative_flags(c1, value))
    [] c.opcode = \hA5 ->
         LET addr == Mos6502_read_memory(c, WInt(c.pc)).v
             c1 == [c EXCEPT !.pc = (c.pc + 1) % H16]
             value == Mos6502_read_memory(c1, WInt(addr)).v
         IN  Ok(Mos6502_update_zero_negative_flags([c1 EXCEPT !.a = value], value))
    [] c.opcode = \hAD ->
         LET rd == Mos6502_read_memory_16(c, c.pc)
             c1 == [c EXCEPT !.pc = (c.pc + 2) % H16]
             value == Mos6502_read_memory(c1, WInt(rd.v)).v
         IN  IF rd.r = "panic" THEN Panic(c, rd.e[2])
             ELSE Ok(Mos6502_update_zero_negative_flags([c1 EXCEPT !.a = value], value))
    [] c.opcode = \h85 ->
         LET addr == Mos6502_read_memory(c, WInt(c.pc)).v
             c1 == [c EXCEPT !.pc = (c.pc + 1) % H16]
         IN  Mos6502_write_memory(c1, WInt(addr), c1.a)
    [] c.opcode = \h8D ->
         LET rd == Mos6502_read_memory_16(c, c.pc)
             c1 == [c EXCEPT !.pc = (c.pc + 2) % H16]
         IN  IF rd.r = "panic" THEN Panic(c, rd.e[2])
             ELSE Mos6502_write_memory(c1, WInt(rd.v), c1.a)
    [] c.opcode = \h4C ->
         LET rd == Mos6502_read_memory_16(c, c.pc)
         IN  IF rd.r = "panic" THEN Panic(c, rd.e[2])
             ELSE Ok([c EXCEPT !.pc = rd.v])
    [] c.opcode = \hEA -> Ok(c)
    [] c.opcode = \h00 -> Ok([c EXCEPT !.halted = TRUE])
    [] OTHER ->
         \* the warning formats self.pc - 1, a u16 subtraction
         IF c.pc = 0 /\ OverflowPanics
         THEN Panic(c, "attempt to subtract with overflow")
         ELSE Ok(c)

\* a variant of step without the halted check, against which
\* C1_HaltedStepChangesNothing is tested
Mos6502_step_ignoring_halt(c) ==
  LET opcode == Mos6502_read_memory(c, WInt(c.pc)).v
      c1 == [c EXCEPT !.opcode = opcode, !.pc = (c.pc + 1) % H16]
  IN  Mos6502_execute_instruction(c1)

Mos6502_step(c) ==
  IF c.halted THEN Ok(c)
  ELSE LET opcode == Mos6502_read_memory(c, WInt(c.pc)).v
           c1 == [c EXCEPT !.opcode = opcode, !.pc = (c.pc + 1) % H16]
       IN  Mos6502_execute_instruction(c1)

\* a variant of reset that leaves the flags as they are, against which
\* C15_Mos6502ResetState is tested
Mos6502_reset_keeping_flags(c) ==
  LET c1 == [c EXCEPT !.a = 0, !.x = 0, !.y = 0, !.sp = \hFF]
      rd == Mos6502_read_memory_16(c1, \hFFFC)
  IN  IF rd.r = "panic" THEN Panic(c1, rd.e[2])
      ELSE Ok([c1 EXCEPT !.pc = rd.v, !.cycles = 0, !.halted = FALSE])

Mos6502_reset(c) ==
  LET c1 == [c EXCEPT !.a = 0, !.x = 0, !.y = 0, !.sp = \hFF]
      rd == Mos6502_read_memory_16(c1, \hFFFC)
  IN  IF rd.r = "panic" THEN Panic(c1, rd.e[2])
      ELSE Ok([c1 EXCEPT !.pc = rd.v,
                         !.flags = [CpuFlagsDefault EXCEPT !.interrupt_disable = TRUE],
                         !.cycles = 0,
                         !.halted = FALSE])

Mos6502_pc(c) == WInt(c.pc)

\* pc as u16
Mos6502_set_pc(c, pc) == Ok([c EXCEPT !.pc = Lo(pc)])

Mos6502_get_register(c, reg) ==
  LET n == ToLower(reg)
  IN  CASE n = Str("a") -> OkV(WInt(c.a))
        [] n = Str("x") -> OkV(WInt(c.x))
        [] n = Str("y") -> OkV(WInt(c.y))
        [] n = Str("sp") -> OkV(WInt(c.sp))
        [] n = Str("pc") -> OkV(WInt(c.pc))
        [] OTHER -> FailV(CpuError("Unknown register", reg))

\* value as u8 keeps the low byte, value as u16 the low half
Mos6502_set_register(c, reg, value) ==
  LET n == ToLower(reg)
  IN  CASE n = Str("a") -> Ok([c EXCEPT !.a = Lo(value) % 256])
        [] n = Str("x") -> Ok([c EXCEPT !.x = Lo(value) % 256])
        [] n = Str("y") -> Ok([c EXCEPT !.y = Lo(value) % 256])
        [] n = Str("sp") -> Ok([c EXCEPT !.sp = Lo(value) % 256])
        [] n = Str("pc") -> Ok([c EXCEPT !.pc = Lo(value)])
        [] OTHER -> Fail(c, CpuError("Unknown register", reg))

Mos6502_get_flags(c) == c.flags
Mos6502_set_flags(c, flags) == Ok([c EXCEPT !.flags = flags])

(***************************************************************************)
(* GenericCpu (src/src/cpu/generic.rs)                                     *)
(***************************************************************************)
\* the memory_size handed to GenericCpu::new
GenericMemorySize == 8

GenericRegisterNames ==
  {Str("r0"), Str("r1"), Str("r2"), Str("r3"), Str("r4"), Str("r5"), Str("r6"),
   Str("r7"), Str("r8"), Str("r9"), Str("r10"), Str("r11"), Str("r12"),
   Str("r13"), Str("r14"), Str("r15")}

GenericCpu_new ==
  [arch |-> "generic", registers |-> [n \in GenericRegisterNames |-> W0],
   pc |-> W0, flags |-> CpuFlagsDefault, memory |-> EmptyMem, cycles |-> 0,
   halted |-> FALSE, opcode |-> 0, operand |-> W0]

\* self.registers.get(name).copied().unwrap_or(0)
GenericCpu_reg(c, s) ==
  IF Str(s) \in DOMAIN c.registers THEN c.registers[Str(s)] ELSE W0

\* self.registers.insert(name, value)
GenericCpu_insert(c, n, value) ==
  [c EXCEPT !.registers =
     [k \in (DOMAIN c.registers) \cup {n} |->
        IF k = n THEN value ELSE c.registers[k]]]

GenericCpu_update_flags(c, result) ==
  [c EXCEPT !.flags = [c.flags EXCEPT !.zero = (result = W0),
                                      !.negative = (Hi(result) >= \h8000),
                                      !.carry = (result # <<\hFFFF, \hFFFF>>),
                                      !.overflow = FALSE]]

\* address as usize + 4 > self.memory.len()
GenericCpu_out_of_range_32(address) ==
  Hi(address) > 0 \/ Lo(address) + 4 > GenericMemorySize

GenericCpu_read_memory_32(c, address) ==
  IF GenericCpu_out_of_range_32(address) THEN FailV(MemoryAccessViolation(address))
  ELSE LET a == Lo(address)
       IN  OkV(FromLeBytes(MemGet(c.memory, a), MemGet(c.memory, a + 1),
                           MemGet(c.memory, a + 2), MemGet(c.memory, a + 3)))

GenericCpu_write_memory_32(c, address, value) ==
  IF GenericCpu_out_of_range_32(address) THEN Fail(c, MemoryAccessViolation(address))
  ELSE LET a == Lo(address)
           m1 == MemSet(c.memory, a, WByte(value, 0))
           m2 == MemSet(m1, a + 1, WByte(value, 1))
           m3 == MemSet(m2, a + 2, WByte(value, 2))
           m4 == MemSet(m3, a + 3, WByte(value, 3))
       IN  Ok([c EXCEPT !.memory = m4])

GenericCpu_read_memory(c, address) ==
  IF Hi(address) > 0 \/ Lo(address) >= GenericMemorySize
  THEN FailV(MemoryAccessViolation(address))
  ELSE OkV(MemGet(c.memory, Lo(address)))

GenericCpu_write_memory(c, address, value) ==
  IF Hi(address) > 0 \/ Lo(address) >= GenericMemorySize
  THEN Fail(c, MemoryAccessViolation(address))
  ELSE Ok([c EXCEPT !.memory = MemSet(c.memory, Lo(address), value)])

\* the arms that compute r0 from r1 (and r2) and update the flags
GenericCpu_alu(c, result) ==
  Ok(GenericCpu_update_flags(GenericCpu_insert(c, Str("r0"), result), result))

GenericCpu_jump_if(c, cond) ==
  IF cond THEN Ok([c EXCEPT !.pc = GenericCpu_reg(c, "r1")]) ELSE Ok(c)

GenericCpu_execute_instruction(c) ==
  LET r1 == GenericCpu_reg(c, "r1")
      r2 == GenericCpu_reg(c, "r2")
      r13 == GenericCpu_reg(c, "r13")
      r15 == GenericCpu_reg(c, "r15")
      o == c.opcode
  IN  CASE o = \h00 -> Ok(c)
        [] o = \h01 -> Ok([c EXCEPT !.halted = TRUE])
        [] o = \h02 -> Ok(GenericCpu_insert(c, Str("r0"), r1))
        [] o = \h03 -> GenericCpu_alu(c, WAdd(r1, r2))
        [] o = \h04 -> GenericCpu_alu(c, WSub(r1, r2))
        [] o = \h05 -> GenericCpu_alu(c, WAnd(r1, r2))
        [] o = \h06 -> GenericCpu_alu(c, WOr(r1, r2))
        [] o = \h07 -> GenericCpu_alu(c, WXor(r1, r2))
        [] o = \h08 -> GenericCpu_alu(c, WNot(r1))
        [] o = \h09 -> GenericCpu_alu(c, WShl(r1, Lo(r2) % 32))
        [] o = \h0A -> GenericCpu_alu(c, WShr(r1, Lo(r2) % 32))
        [] o = \h0B -> GenericCpu_jump_if(c, TRUE)
        [] o = \h0C -> GenericCpu_jump_if(c, c.flags.zero)
        [] o = \h0D -> GenericCpu_jump_if(c, ~c.flags.zero)
        [] o = \h0E -> GenericCpu_jump_if(c, c.flags.carry)
        [] o = \h0F -> GenericCpu_jump_if(c, ~c.flags.carry)
        [] o = \h10 -> Ok([GenericCpu_insert(c, Str("r15"), c.pc) EXCEPT !.pc = r1])
        [] o = \h11 -> Ok([c EXCEPT !.pc = r15])
        [] o = \h12 ->
             LET w == GenericCpu_write_memory_32(c, r13, r1)
             IN  IF w.r # "ok" THEN w
                 ELSE Ok(GenericCpu_insert(w.c, Str("r13"), WSub(r13, <<0, 4>>)))
        [] o = \h13 ->
             LET rd == GenericCpu_read_memory_32(c, WAdd(r13, <<0, 4>>))
             IN  IF rd.r # "ok" THEN Fail(c, rd.e)
                 ELSE Ok(GenericCpu_insert(GenericCpu_insert(c, Str("r0"), rd.v),
                                           Str("r13"), WAdd(r13, <<0, 4>>)))
        [] o = \h14 ->
             LET rd == GenericCpu_read_memory_32(c, r1)
             IN  IF rd.r # "ok" THEN Fail(c, rd.e)
                 ELSE Ok(GenericCpu_insert(c, Str("r0"), rd.v))
        [] o = \h15 -> GenericCpu_write_memory_32(c, r1, r2)
        [] o = \h16 ->
             LET rd == GenericCpu_read_memory(c, r1)
             IN  IF rd.r # "ok" THEN Fail(c, rd.e)
                 ELSE Ok(GenericCpu_insert(c, Str("r0"), WInt(rd.v)))
        [] o = \h17 -> GenericCpu_write_memory(c, r1, Lo(r2) % 256)
        [] o = \h18 -> Ok(GenericCpu_update_flags(c, WSub(r1, r2)))
        [] o = \h19 -> Ok(GenericCpu_update_flags(c, WAnd(r1, r2)))
        [] o = \h1A -> GenericCpu_alu(c, WAdd(r1, <<0, 1>>))
        [] o = \h1B -> GenericCpu_alu(c, WSub(r1, <<0, 1>>))
        [] o = \h1C -> GenericCpu_alu(c, WNeg(r1))
        [] o = \h1D -> GenericCpu_alu(c, WMul(r1, r2))
        [] o = \h1E ->
             IF r2 = W0 THEN Fail(c, CpuError("Division by zero", o))
             ELSE GenericCpu_alu(c, WDiv(r1, r2))
        [] o = \h1F ->
             IF r2 = W0 THEN Fail(c, CpuError("Division by zero", o))
             ELSE GenericCpu_alu(c, WMod(r1, r2))
        [] OTHER -> Fail(c, CpuError("Unimplemented opcode", o))

GenericCpu_needs_operand(opcode) == opcode \in {\h0B, \h0C, \h0D, \h0E, \h0F, \h10}

GenericCpu_step(c) ==
  IF c.halted THEN Ok(c)
  ELSE IF Hi(c.pc) > 0 \/ Lo(c.pc) >= GenericMemorySize
  THEN Panic(c, "index out of bounds")
  ELSE
    LET c1 == [c EXCEPT !.opcode = MemGet(c.memory, Lo(c.pc)),
                        !.pc = WAdd(c.pc, <<0, 1>>)]
        rd == GenericCpu_read_memory_32(c1, c1.pc)
        c2 == IF GenericCpu_needs_operand(c1.opcode)
              THEN [c1 EXCEPT !.operand = rd.v, !.pc = WAdd(c1.pc, <<0, 4>>)]
              ELSE c1
        ex == GenericCpu_execute_instruction(c2)
    IN  IF GenericCpu_needs_operand(c1.opcode) /\ rd.r # "ok" THEN Fail(c1, rd.e)
        ELSE IF ex.r # "ok" THEN ex
        ELSE Ok([ex.c EXCEPT !.cycles = ex.c.cycles + 1])

GenericCpu_reset(c) ==
  Ok([c EXCEPT !.registers = [n \in GenericRegisterNames |-> W0],
               !.pc = W0,
               !.flags = CpuFlagsDefault,
               !.memory = EmptyMem,
               !.cycles = 0,
               !.halted = FALSE])

GenericCpu_pc(c) == c.pc
GenericCpu_set_pc(c, pc) == Ok([c EXCEPT !.pc = pc])

\* the HashMap is keyed by the name as given: no case folding
GenericCpu_get_register(c, reg) ==
  IF reg \in DOMAIN c.registers THEN OkV(c.registers[reg])
  ELSE FailV(CpuError("Register not found", reg))

GenericCpu_set_register(c, reg, value) == Ok(GenericCpu_insert(c, reg, value))

GenericCpu_get_flags(c) == c.flags
GenericCpu_set_flags(c, flags) == Ok([c EXCEPT !.flags = flags])

(***************************************************************************)
(* Motorola 68000 (src/src/cpu/m68k.rs)                                    *)
(***************************************************************************)
\* bit i of a u16 and its update (sr |= 1 << bit, sr &= !(1 << bit))
Bit16(n, i) == (n \div (2 ^ i)) % 2
SetBit16(n, i, on) == n - Bit16(n, i) * (2 ^ i) + (IF on THEN 2 ^ i ELSE 0)

M68k_new ==
  [arch |-> "68000", d |-> [i \in 0..7 |-> W0], a |-> [i \in 0..7 |-> W0],
   pc |-> W0, sr |-> \h2000, memory |-> EmptyMem, cycles |-> 0,
   halted |-> FALSE, opcode |-> 0, operand |-> W0,
   addressing_mode |-> "DataRegister"]

\* an index below self.memory.len() = 0x1000000
M68k_in_memory(address) == Hi(address) < \h0100

M68k_read_memory_16(c, address) ==
  IF ~M68k_in_memory(address) \/ ~M68k_in_memory(WAdd(address, <<0, 1>>))
  THEN PanicV("index out of bounds")
  ELSE LET low == MemGet(c.memory, address)
           high == MemGet(c.memory, WAdd(address, <<0, 1>>))
       IN  OkV(high * 256 + low)

\* the bytes are stored one by one; an index past the end panics after the
\* earlier stores have been made
M68k_write_memory_16(c, address, value) ==
  LET a1 == WAdd(address, <<0, 1>>)
      m1 == MemSet(c.memory, address, value % 256)
      m2 == MemSet(m1, a1, value \div 256)
  IN  IF ~M68k_in_memory(address) THEN Panic(c, "index out of bounds")
      ELSE IF ~M68k_in_memory(a1)
      THEN Panic([c EXCEPT !.memory = m1], "index out of bounds")
      ELSE Ok([c EXCEPT !.memory = m2])

M68k_read_memory_32(c, address) ==
  IF ~M68k_in_memory(address) \/ ~M68k_in_memory(WAdd(address, <<0, 3>>))
  THEN PanicV("index out of bounds")
  ELSE LET b0 == MemGet(c.memory, address)
           b1 == MemGet(c.memory, WAdd(address, <<0, 1>>))
           b2 == MemGet(c.memory, WAdd(address, <<0, 2>>))
           b3 == MemGet(c.memory, WAdd(address, <<0, 3>>))
       IN  OkV(FromBeBytes(b3, b2, b1, b0))

RECURSIVE M68k_store_bytes(_, _, _, _)
\* store bytes[k..4] at address, address + 1, ... until an index is out of
\* bounds
M68k_store_bytes(c, address, bytes, k) ==
  IF k > Len(bytes) THEN Ok(c)
  ELSE IF ~M68k_in_memory(address) THEN Panic(c, "index out of bounds")
  ELSE M68k_store_bytes([c EXCEPT !.memory = MemSet(c.memory, address, bytes[k])],
                        WAdd(address, <<0, 1>>), bytes, k + 1)

\* value.to_be_bytes() stored as bytes[3], bytes[2], bytes[1], bytes[0]
M68k_write_memory_32(c, address, value) ==
  M68k_store_bytes(c, address,
                   <<WByte(value, 0), WByte(value, 1), WByte(value, 2), WByte(value, 3)>>, 1)

\* step only ever selects DataRegister and AbsoluteLong; the arms that step
\* cannot select are not entered
M68k_get_effective_address(c) ==
  CASE c.addressing_mode = "DataRegister" -> c.d[0]
    [] c.addressing_mode = "AbsoluteLong" -> c.operand

M68k_set_flag(c, bit, value) == [c EXCEPT !.sr = SetBit16(c.sr, bit, value)]
M68k_get_flag(c, bit) == Bit16(c.sr, bit) = 1

\* value is at most 16 bits wide at every call with size 8 or 16
M68k_update_flags_nz(c, value, size) ==
  LET neg == CASE size = 8 -> Bit16(Lo(value), 7) = 1
               [] size = 16 -> Bit16(Lo(value), 15) = 1
               [] OTHER -> Hi(value) >= \h8000
  IN  M68k_set_flag(M68k_set_flag(c, 1, value = W0), 3, neg)

\* MOVE.B, ADD.B, SUB.B: source and dest are the same effective address
M68k_byte_op(c, kind) ==
  LET source == M68k_get_effective_address(c)
      dest == M68k_get_effective_address(c)
      src_value == MemGet(c.memory, source)
      dest_value == MemGet(c.memory, dest)
      result == CASE kind = "move" -> src_value
                  [] kind = "add" -> (src_value + dest_value) % 256
                  [] kind = "sub" -> (dest_value - src_value + 256) % 256
  IN  IF ~M68k_in_memory(source) \/ ~M68k_in_memory(dest)
      THEN Panic(c, "index out of bounds")
      ELSE Ok(M68k_update_flags_nz([c EXCEPT !.memory = MemSet(c.memory, dest, result)],
                                   WInt(result), 8))

M68k_execute_instruction(c) ==
  LET o == c.opcode
      a7 == c.a[7]
  IN  CASE o >= \h2000 /\ o <= \h2FFF -> M68k_byte_op(c, "move")
        [] o >= \h3000 /\ o <= \h3FFF ->
             LET source == M68k_get_effective_address(c)
                 dest == M68k_get_effective_address(c)
                 rd == M68k_read_memory_16(c, source)
                 w == M68k_write_memory_16(c, dest, rd.v)
             IN  IF rd.r = "panic" THEN Panic(c, rd.e[2])
                 ELSE IF w.r = "panic" THEN w
                 ELSE Ok(M68k_update_flags_nz(w.c, WInt(rd.v), 16))
        [] o >= \hD000 /\ o <= \hDFFF -> M68k_byte_op(c, "add")
        [] o >= \h9000 /\ o <= \h9FFF -> M68k_byte_op(c, "sub")
        [] o >= \h4EC0 /\ o <= \h4EFF ->
             Ok([c EXCEPT !.pc = M68k_get_effective_address(c)])
        [] o >= \h4E80 /\ o <= \h4EBF ->
             LET address == M68k_get_effective_address(c)
                 c1 == [c EXCEPT !.a[7] = WSub(a7, <<0, 4>>)]
                 w == M68k_write_memory_32(c1, c1.a[7], c1.pc)
             IN  IF WSubOverflows(a7, <<0, 4>>) /\ OverflowPanics
                 THEN Panic(c, "attempt to subtract with overflow")
                 ELSE IF w.r = "panic" THEN w
                 ELSE Ok([w.c EXCEPT !.pc = address])
        [] o = \h4E75 ->
             LET rd == M68k_read_memory_32(c, a7)
             IN  IF rd.r = "panic" THEN Panic(c, rd.e[2])
                 ELSE Ok([c EXCEPT !.pc = rd.v, !.a[7] = WAdd(a7, <<0, 4>>)])
        [] o = \h4E71 -> Ok(c)
        [] o = \h4E73 ->
             LET rd1 == M68k_read_memory_16(c, a7)
                 c1 == [c EXCEPT !.sr = rd1.v, !.a[7] = WAdd(a7, <<0, 2>>)]
                 rd2 == M68k_read_memory_32(c1, c1.a[7])
             IN  IF rd1.r = "panic" THEN Panic(c, rd1.e[2])
                 ELSE IF rd2.r = "panic" THEN Panic(c1, rd2.e[2])
                 ELSE Ok([c1 EXCEPT !.pc = rd2.v, !.a[7] = WAdd(c1.a[7], <<0, 4>>)])
        [] OTHER -> Fail(c, CpuError("Unimplemented opcode", o))

M68k_step(c) ==
  IF c.halted THEN Ok(c)
  ELSE
    LET fetch == M68k_read_memory_16(c, c.pc)
        c1 == [c EXCEPT !.opcode = fetch.v, !.pc = WAdd(c.pc, <<0, 2>>)]
        o == c1.opcode
        jump == (o >= \h4EC0 /\ o <= \h4EFF) \/ (o >= \h4E80 /\ o <= \h4EBF)
        c2 == [c1 EXCEPT !.addressing_mode = "AbsoluteLong"]
        rd == M68k_read_memory_32(c2, c2.pc)
        c3 == IF jump
              THEN [c2 EXCEPT !.operand = rd.v, !.pc = WAdd(c2.pc, <<0, 4>>)]
              ELSE [c1 EXCEPT !.addressing_mode = "DataRegister", !.operand = W0]
        ex == M68k_execute_instruction(c3)
    IN  IF fetch.r = "panic" THEN Panic(c, fetch.e[2])
        ELSE IF jump /\ rd.r = "panic" THEN Panic(c2, rd.e[2])
        ELSE IF ex.r # "ok" THEN ex
        ELSE Ok([ex.c EXCEPT !.cycles = ex.c.cycles + 1])

\* the vector is read before memory.fill(0)
M68k_reset(c) ==
  LET c1 == [c EXCEPT !.d = [i \in 0..7 |-> W0], !.a = [i \in 0..7 |-> W0]]
      rd == M68k_read_memory_32(c1, W0)
  IN  Ok([c1 EXCEPT !.pc = rd.v, !.sr = \h2000, !.memory = EmptyMem,
                    !.cycles = 0, !.halted = FALSE])

M68k_pc(c) == c.pc
M68k_set_pc(c, pc) == Ok([c EXCEPT !.pc = pc])

M68k_read_memory(c, address) ==
  IF ~M68k_in_memory(address) THEN FailV(MemoryAccessViolation(address))
  ELSE OkV(MemGet(c.memory, address))

M68k_write_memory(c, address, value) ==
  IF ~M68k_in_memory(address) THEN Fail(c, MemoryAccessViolation(address))
  ELSE Ok([c EXCEPT !.memory = MemSet(c.memory, address, value)])

\* the register a name of the form d<i> or a<i> denotes
M68k_register_names ==
  [k \in {Str("d0"), Str("d1"), Str("d2"), Str("d3"), Str("d4"), Str("d5"),
          Str("d6"), Str("d7"), Str("a0"), Str("a1"), Str("a2"), Str("a3"),
          Str("a4"), Str("a5"), Str("a6"), Str("a7")} |->
     CASE k = Str("d0") -> <<"d", 0>> [] k = Str("d1") -> <<"d", 1>>
       [] k = Str("d2") -> <<"d", 2>> [] k = Str("d3") -> <<"d", 3>>
       [] k = Str("d4") -> <<"d", 4>> [] k = Str("d5") -> <<"d", 5>>
       [] k = Str("d6") -> <<"d", 6>> [] k = Str("d7") -> <<"d", 7>>
       [] k = Str("a0") -> <<"a", 0>> [] k = Str("a1") -> <<"a", 1>>
       [] k = Str("a2") -> <<"a", 2>> [] k = Str("a3") -> <<"a", 3>>
       [] k = Str("a4") -> <<"a", 4>> [] k = Str("a5") -> <<"a", 5>>
       [] k = Str("a6") -> <<"a", 6>> [] k = Str("a7") -> <<"a", 7>>]

M68k_get_register(c, reg) ==
  LET n == ToLower(reg)
  IN  CASE n \in DOMAIN M68k_register_names ->
             LET t == M68k_register_names[n]
             IN  OkV(IF t[1] = "d" THEN c.d[t[2]] ELSE c.a[t[2]])
        [] n = Str("pc") -> OkV(c.pc)
        [] n = Str("sr") -> OkV(WInt(c.sr))
        [] OTHER -> FailV(CpuError("Unknown register", reg))

\* sr = value as u16
M68k_set_register(c, reg, value) ==
  LET n == ToLower(reg)
  IN  CASE n \in DOMAIN M68k_register_names ->
             LET t == M68k_register_names[n]
             IN  Ok(IF t[1] = "d" THEN [c EXCEPT !.d[t[2]] = value]
                    ELSE [c EXCEPT !.a[t[2]] = value])
        [] n = Str("pc") -> Ok([c EXCEPT !.pc = value])
        [] n = Str("sr") -> Ok([c EXCEPT !.sr = Lo(value)])
        [] OTHER -> Fail(c, CpuError("Unknown register", reg))

M68k_get_flags(c) ==
  [CpuFlagsDefault EXCEPT !.carry = M68k_get_flag(c, 0),
                          !.zero = M68k_get_flag(c, 1),
                          !.overflow = M68k_get_flag(c, 2),
                          !.negative = M68k_get_flag(c, 3),
                          !.extend = M68k_get_flag(c, 4),
                          !.interrupt_disable = M68k_get_flag(c, 8),
                          !.sign = M68k_get_flag(c, 3)]

\* a variant of set_flags that keeps interrupt_disable in bit 9, against which
\* C12_SetFlagsOfGetFlagsIsNoOp is tested
M68k_set_flags_in_bit_9(c, flags) ==
  Ok(M68k_set_flag(M68k_set_flag(M68k_set_flag(M68k_set_flag(M68k_set_flag(
       M68k_set_flag(c, 0, flags.carry), 1, flags.zero), 2, flags.overflow),
       3, flags.negative), 4, flags.extend), 9, flags.interrupt_disable))

M68k_set_flags(c, flags) ==
  Ok(M68k_set_flag(M68k_set_flag(M68k_set_flag(M68k_set_flag(M68k_set_flag(
       M68k_set_flag(c, 0, flags.carry), 1, flags.zero), 2, flags.overflow),
       3, flags.negative), 4, flags.extend), 8, flags.interrupt_disable))

(***************************************************************************)
(* MIPS R3000A (src/src/cpu/mips.rs)                                       *)
(***************************************************************************)
Mips_new ==
  [arch |-> "mips", registers |-> [i \in 0..31 |-> W0], pc |-> W0,
   cp0_registers |-> [i \in 0..31 |-> W0], memory |-> EmptyMem, cycles |-> 0,
   halted |-> FALSE, opcode |-> 0, rs |-> 0, rt |-> 0, rd |-> 0, shamt |-> 0,
   funct |-> 0, immediate |-> 0, address |-> W0]

\* an index below self.memory.len() = 0x10000000
Mips_in_memory(address) == Hi(address) < \h1000

Mips_read_memory_32(c, address) ==
  IF ~Mips_in_memory(address) \/ ~Mips_in_memory(WAdd(address, <<0, 3>>))
  THEN PanicV("index out of bounds")
  ELSE OkV(FromLeBytes(MemGet(c.memory, address),
                       MemGet(c.memory, WAdd(address, <<0, 1>>)),
                       MemGet(c.memory, WAdd(address, <<0, 2>>)),
                       MemGet(c.memory, WAdd(address, <<0, 3>>))))

Mips_read_memory_16(c, address) ==
  IF ~Mips_in_memory(address) \/ ~Mips_in_memory(WAdd(address, <<0, 1>>))
  THEN PanicV("index out of bounds")
  ELSE OkV(MemGet(c.memory, WAdd(address, <<0, 1>>)) * 256 + MemGet(c.memory, address))

RECURSIVE Mips_store_bytes(_, _, _, _)
\* store bytes[k..] at address, address + 1, ... until an index is out of
\* bounds
Mips_store_bytes(c, address, bytes, k) ==
  IF k > Len(bytes) THEN Ok(c)
  ELSE IF ~Mips_in_memory(address) THEN Panic(c, "index out of bounds")
  ELSE Mips_store_bytes([c EXCEPT !.memory = MemSet(c.memory, address, bytes[k])],
                        WAdd(address, <<0, 1>>), bytes, k + 1)

Mips_write_memory_32(c, address, value) ==
  Mips_store_bytes(c, address,
                   <<WByte(value, 0), WByte(value, 1), WByte(value, 2), WByte(value, 3)>>, 1)

Mips_write_memory_16(c, address, value) ==
  Mips_store_bytes(c, address, <<value % 256, value \div 256>>, 1)

\* self.registers[rs] + (self.immediate as i16 as u32), a checked addition
Mips_effective_address(c) == WAdd(c.registers[c.rs], SignExt16(c.immediate))
Mips_effective_address_overflows(c) ==
  WAddOverflows(c.registers[c.rs], SignExt16(c.immediate)) /\ OverflowPanics

\* self.pc += (self.immediate as i16 as u32) << 2 when the condition holds
Mips_branch(c, cond) ==
  LET off == WShl(SignExt16(c.immediate), 2)
  IN  IF ~cond THEN Ok(c)
      ELSE IF WAddOverflows(c.pc, off) /\ OverflowPanics
      THEN Panic(c, "attempt to add with overflow")
      ELSE Ok([c EXCEPT !.pc = WAdd(c.pc, off)])

\* (self.pc & 0xF0000000) | (self.address << 2)
Mips_jump_target(c) == WOr(WAnd(c.pc, <<\hF000, 0>>), WShl(c.address, 2))

Mips_execute_rtype(c) ==
  LET rs == c.registers[c.rs]
      rt == c.registers[c.rt]
      f == c.funct
  IN  CASE f = \h20 -> Ok([c EXCEPT !.registers[c.rd] = WAdd(rs, rt)])
        [] f = \h22 -> Ok([c EXCEPT !.registers[c.rd] = WSub(rs, rt)])
        [] f = \h24 -> Ok([c EXCEPT !.registers[c.rd] = WAnd(rs, rt)])
        [] f = \h25 -> Ok([c EXCEPT !.registers[c.rd] = WOr(rs, rt)])
        [] f = \h26 -> Ok([c EXCEPT !.registers[c.rd] = WXor(rs, rt)])
        [] f = \h27 -> Ok([c EXCEPT !.registers[c.rd] = WNot(WOr(rs, rt))])
        [] f = \h2A ->
             Ok([c EXCEPT !.registers[c.rd] =
                   IF WLtSigned(rs, rt) THEN <<0, 1>> ELSE W0])
        [] f = \h00 -> Ok([c EXCEPT !.registers[c.rd] = WShl(rt, c.shamt)])
        [] f = \h02 -> Ok([c EXCEPT !.registers[c.rd] = WShr(rt, c.shamt)])
        [] f = \h03 -> Ok([c EXCEPT !.registers[c.rd] = WSar(rt, c.shamt)])
        [] f = \h08 -> Ok([c EXCEPT !.pc = rs])
        [] f = \h09 ->
             IF WAddOverflows(c.pc, <<0, 4>>) /\ OverflowPanics
             THEN Panic(c, "attempt to add with overflow")
             ELSE LET c1 == [c EXCEPT !.registers[c.rd] = WAdd(c.pc, <<0, 4>>)]
                  IN  Ok([c1 EXCEPT !.pc = c1.registers[c1.rs]])
        [] OTHER -> Fail(c, CpuError("Unimplemented R-type function", f))

Mips_execute_load(c, kind) ==
  LET address == Mips_effective_address(c)
      rd16 == Mips_read_memory_16(c, address)
      rd32 == Mips_read_memory_32(c, address)
      byte == MemGet(c.memory, address)
  IN  IF Mips_effective_address_overflows(c)
      THEN Panic(c, "attempt to add with overflow")
      ELSE CASE kind = "LB" ->
                  IF ~Mips_in_memory(address) THEN Panic(c, "index out of bounds")
                  ELSE Ok([c EXCEPT !.registers[c.rt] = SignExt8(byte)])
             [] kind = "LBU" ->
                  IF ~Mips_in_memory(address) THEN Panic(c, "index out of bounds")
                  ELSE Ok([c EXCEPT !.registers[c.rt] = WInt(byte)])
             [] kind = "LH" ->
                  IF rd16.r = "panic" THEN Panic(c, rd16.e[2])
                  ELSE Ok([c EXCEPT !.registers[c.rt] = SignExt16(rd16.v)])
             [] kind = "LHU" ->
                  IF rd16.r = "panic" THEN Panic(c, rd16.e[2])
                  ELSE Ok([c EXCEPT !.registers[c.rt] = WInt(rd16.v)])
             [] kind = "LW" ->
                  IF rd32.r = "panic" THEN Panic(c, rd32.e[2])
                  ELSE Ok([c EXCEPT !.registers[c.rt] = rd32.v])

Mips_execute_store(c, kind) ==
  LET address == Mips_effective_address(c)
      rt == c.registers[c.rt]
  IN  IF Mips_effective_address_overflows(c)
      THEN Panic(c, "attempt to add with overflow")
      ELSE CASE kind = "SB" -> Mips_store_bytes(c, address, <<Lo(rt) % 256>>, 1)
             [] kind = "SH" -> Mips_write_memory_16(c, address, Lo(rt))
             [] kind = "SW" -> Mips_write_memory_32(c, address, rt)

Mips_execute_instruction(c) ==
  LET rs == c.registers[c.rs]
      rt == c.registers[c.rt]
      imm == <<0, c.immediate>>
      o == c.opcode
  IN  CASE o = \h00 -> Mips_execute_rtype(c)
        [] o = \h02 -> Ok([c EXCEPT !.pc = Mips_jump_target(c)])
        [] o = \h03 ->
             IF WAddOverflows(c.pc, <<0, 4>>) /\ OverflowPanics
             THEN Panic(c, "attempt to add with overflow")
             ELSE Ok([c EXCEPT !.registers[31] = WAdd(c.pc, <<0, 4>>),
                               !.pc = Mips_jump_target(c)])
        [] o = \h08 -> Ok([c EXCEPT !.registers[c.rt] = WAdd(rs, SignExt16(c.immediate))])
        [] o = \h09 -> Ok([c EXCEPT !.registers[c.rt] = WAdd(rs, imm)])
        [] o = \h0A ->
             Ok([c EXCEPT !.registers[c.rt] =
                   IF WLtSigned(rs, SignExt16(c.immediate)) THEN <<0, 1>> ELSE W0])
        [] o = \h0C -> Ok([c EXCEPT !.registers[c.rt] = WAnd(rs, imm)])
        [] o = \h0D -> Ok([c EXCEPT !.registers[c.rt] = WOr(rs, imm)])
        [] o = \h0E -> Ok([c EXCEPT !.registers[c.rt] = WXor(rs, imm)])
        [] o = \h0F -> Ok([c EXCEPT !.registers[c.rt] = <<c.immediate, 0>>])
        [] o = \h20 -> Mips_execute_load(c, "LB")
        [] o = \h21 -> Mips_execute_load(c, "LH")
        [] o = \h23 -> Mips_execute_load(c, "LW")
        [] o = \h24 -> Mips_execute_load(c, "LBU")
        [] o = \h25 -> Mips_execute_load(c, "LHU")
        [] o = \h28 -> Mips_execute_store(c, "SB")
        [] o = \h29 -> Mips_execute_store(c, "SH")
        [] o = \h2B -> Mips_execute_store(c, "SW")
        [] o = \h04 -> Mips_branch(c, rs = rt)
        [] o = \h05 -> Mips_branch(c, rs # rt)
        [] o = \h06 -> Mips_branch(c, Hi(rs) >= \h8000 \/ rs = W0)
        [] o = \h07 -> Mips_branch(c, Hi(rs) < \h8000 /\ rs # W0)
        [] OTHER -> Fail(c, CpuError("Unimplemented opcode", o))

\* a variant of step that decodes rt from the bits of rs, against which
\* C26_AddiSetsRt is tested
Mips_step_rt_in_rs_field(c) ==
  IF c.halted THEN Ok(c)
  ELSE
    LET fetch == Mips_read_memory_32(c, c.pc)
        hi == Hi(fetch.v)
        lo == Lo(fetch.v)
        c1 == [c EXCEPT !.pc = WAdd(c.pc, <<0, 4>>),
                        !.opcode = hi \div 1024,
                        !.rs = (hi \div 32) % 32,
                        !.rt = (hi \div 32) % 32,
                        !.rd = lo \div 2048,
                        !.shamt = (lo \div 64) % 32,
                        !.funct = lo % 64,
                        !.immediate = lo,
                        !.address = <<hi % 1024, lo>>]
        ex == Mips_execute_instruction(c1)
    IN  IF fetch.r = "panic" THEN Panic(c, fetch.e[2])
        ELSE IF ex.r # "ok" THEN ex
        ELSE Ok([ex.c EXCEPT !.cycles = ex.c.cycles + 1])

Mips_step(c) ==
  IF c.halted THEN Ok(c)
  ELSE
    LET fetch == Mips_read_memory_32(c, c.pc)
        hi == Hi(fetch.v)
        lo == Lo(fetch.v)
        c1 == [c EXCEPT !.pc = WAdd(c.pc, <<0, 4>>),
                        !.opcode = hi \div 1024,
                        !.rs = (hi \div 32) % 32,
                        !.rt = hi % 32,
                        !.rd = lo \div 2048,
                        !.shamt = (lo \div 64) % 32,
                        !.funct = lo % 64,
                        !.immediate = lo,
                        !.address = <<hi % 1024, lo>>]
        ex == Mips_execute_instruction(c1)
    IN  IF fetch.r = "panic" THEN Panic(c, fetch.e[2])
        ELSE IF ex.r # "ok" THEN ex
        ELSE Ok([ex.c EXCEPT !.cycles = ex.c.cycles + 1])

\* the reset vector 0xBFC00000 is read with read_memory_32, that is by indexing
\* the 0x10000000-byte memory
Mips_reset(c) ==
  LET c1 == [c EXCEPT !.registers = [i \in 0..31 |-> W0]]
      rd == Mips_read_memory_32(c1, <<\hBFC0, 0>>)
  IN  IF rd.r = "panic" THEN Panic(c1, rd.e[2])
      ELSE Ok([c1 EXCEPT !.pc = rd.v,
                         !.cp0_registers = [i \in 0..31 |-> W0],
                         !.memory = EmptyMem,
                         !.cycles = 0,
                         !.halted = FALSE])

Mips_pc(c) == c.pc
Mips_set_pc(c, pc) == Ok([c EXCEPT !.pc = pc])

Mips_read_memory(c, address) ==
  IF ~Mips_in_memory(address) THEN FailV(MemoryAccessViolation(address))
  ELSE OkV(MemGet(c.memory, address))

Mips_write_memory(c, address, value) ==
  IF ~Mips_in_memory(address) THEN Fail(c, MemoryAccessViolation(address))
  ELSE Ok([c EXCEPT !.memory = MemSet(c.memory, address, value)])

\* entry i + 1 holds the two names of register i
Mips_numbered_names ==
  <<"r0", "r1", "r2", "r3", "r4", "r5", "r6", "r7", "r8", "r9", "r10", "r11",
    "r12", "r13", "r14", "r15", "r16", "r17", "r18", "r19", "r20", "r21", "r22",
    "r23", "r24", "r25", "r26", "r27", "r28", "r29", "r30", "r31">>

Mips_alias_names ==
  <<"zero", "at", "v0", "v1", "a0", "a1", "a2", "a3", "t0", "t1", "t2", "t3",
    "t4", "t5", "t6", "t7", "s0", "s1", "s2", "s3", "s4", "s5", "s6", "s7",
    "t8", "t9", "k0", "k1", "gp", "sp", "fp", "ra">>

Mips_is_register(n) ==
  \E i \in 0..31 : n.s = Mips_numbered_names[i + 1] \/ n.s = Mips_alias_names[i + 1]

Mips_register_index(n) ==
  CHOOSE i \in 0..31 : n.s = Mips_numbered_names[i + 1] \/ n.s = Mips_alias_names[i + 1]

Mips_get_register(c, reg) ==
  LET n == ToLower(reg)
  IN  CASE Mips_is_register(n) -> OkV(c.registers[Mips_register_index(n)])
        [] n = Str("pc") -> OkV(c.pc)
        [] OTHER -> FailV(CpuError("Unknown register", reg))

Mips_set_register(c, reg, value) ==
  LET n == ToLower(reg)
  IN  CASE Mips_is_register(n) ->
             Ok([c EXCEPT !.registers[Mips_register_index(n)] = value])
        [] n = Str("pc") -> Ok([c EXCEPT !.pc = value])
        [] OTHER -> Fail(c, CpuError("Unknown register", reg))

Mips_get_flags(c) == CpuFlagsDefault
Mips_set_flags(c, flags) == Ok(c)

(***************************************************************************)
(* ARM (src/src/cpu/arm.rs)                                                *)
(***************************************************************************)
\* w |= 1 << i when on, w &= !(1 << i) otherwise
SetWBit(w, i, on) ==
  IF i >= 16 THEN <<SetBit16(Hi(w), i - 16, on), Lo(w)>>
  ELSE <<Hi(w), SetBit16(Lo(w), i, on)>>

Arm_new ==
  [arch |-> "arm", registers |-> [i \in 0..15 |-> W0], pc |-> W0,
   cpsr |-> <<0, \h00D3>>, spsr |-> [i \in 0..4 |-> W0], memory |-> EmptyMem,
   cycles |-> 0, halted |-> FALSE, instruction |-> W0, opcode |-> 0,
   condition |-> 0, rn |-> 0, rd |-> 0, rm |-> 0, rs |-> 0, immediate |-> 0,
   shift_amount |-> 0, shift_type |-> 0]

\* an index below self.memory.len() = 0x10000000
Arm_in_memory(address) == Hi(address) < \h1000

Arm_read_memory_32(c, address) ==
  IF ~Arm_in_memory(address) \/ ~Arm_in_memory(WAdd(address, <<0, 3>>))
  THEN PanicV("index out of bounds")
  ELSE OkV(FromLeBytes(MemGet(c.memory, address),
                       MemGet(c.memory, WAdd(address, <<0, 1>>)),
                       MemGet(c.memory, WAdd(address, <<0, 2>>)),
                       MemGet(c.memory, WAdd(address, <<0, 3>>))))

Arm_read_memory_16(c, address) ==
  IF ~Arm_in_memory(address) \/ ~Arm_in_memory(WAdd(address, <<0, 1>>))
  THEN PanicV("index out of bounds")
  ELSE OkV(MemGet(c.memory, WAdd(address, <<0, 1>>)) * 256 + MemGet(c.memory, address))

RECURSIVE Arm_store_bytes(_, _, _, _)
\* store bytes[k..] at address, address + 1, ... until an index is out of
\* bounds
Arm_store_bytes(c, address, bytes, k) ==
  IF k > Len(bytes) THEN Ok(c)
  ELSE IF ~Arm_in_memory(address) THEN Panic(c, "index out of bounds")
  ELSE Arm_store_bytes([c EXCEPT !.memory = MemSet(c.memory, address, bytes[k])],
                       WAdd(address, <<0, 1>>), bytes, k + 1)

Arm_write_memory_32(c, address, value) ==
  Arm_store_bytes(c, address,
                  <<WByte(value, 0), WByte(value, 1), WByte(value, 2), WByte(value, 3)>>, 1)

Arm_write_memory_16(c, address, value) ==
  Arm_store_bytes(c, address, <<value % 256, value \div 256>>, 1)

Arm_check_condition(c, condition) ==
  LET n == WBit(c.cpsr, 31) = 1
      z == WBit(c.cpsr, 30) = 1
      cy == WBit(c.cpsr, 29) = 1
      v == WBit(c.cpsr, 28) = 1
  IN  CASE condition = 0 -> z
        [] condition = 1 -> ~z
        [] condition = 2 -> cy
        [] condition = 3 -> ~cy
        [] condition = 4 -> n
        [] condition = 5 -> ~n
        [] condition = 6 -> v
        [] condition = 7 -> ~v
        [] condition = 8 -> cy /\ ~z
        [] condition = 9 -> ~cy \/ z
        \* (cpsr & 0x80000000) == (cpsr & 0x10000000) compares the masked
        \* words, which are equal only when both bits are clear
        [] condition = 10 -> ~n /\ ~v
        [] condition = 11 -> n \/ v
        [] condition = 12 -> ~z /\ (~n /\ ~v)
        [] condition = 13 -> z \/ (n \/ v)
        [] condition = 14 -> TRUE
        [] condition = 15 -> FALSE
        [] OTHER -> FALSE

Arm_update_flags(c, result, carry, overflow) ==
  [c EXCEPT !.cpsr =
     SetWBit(SetWBit(SetWBit(SetWBit(c.cpsr, 30, result = W0),
                             31, Hi(result) >= \h8000), 29, carry), 28, overflow)]

\* ((x ^ result) & (y ^ result) & 0x80000000) != 0
Arm_overflow(x, y, result) ==
  WBit(x, 31) # WBit(result, 31) /\ WBit(y, 31) # WBit(result, 31)

\* write result to rd and update the flags
Arm_data(c, result, carry, overflow) ==
  Ok(Arm_update_flags([c EXCEPT !.registers[c.rd] = result], result, carry, overflow))

Arm_load_store(c, kind) ==
  LET rn == c.registers[c.rn]
      rm == c.registers[c.rm]
      address == WAdd(rn, rm)
      rd == c.registers[c.rd]
      rd16 == Arm_read_memory_16(c, address)
      rd32 == Arm_read_memory_32(c, address)
  IN  IF WAddOverflows(rn, rm) /\ OverflowPanics
      THEN Panic(c, "attempt to add with overflow")
      ELSE CASE kind = "LDR" ->
                  IF rd32.r = "panic" THEN Panic(c, rd32.e[2])
                  ELSE Ok([c EXCEPT !.registers[c.rd] = rd32.v])
             [] kind = "LDRB" ->
                  IF ~Arm_in_memory(address) THEN Panic(c, "index out of bounds")
                  ELSE Ok([c EXCEPT !.registers[c.rd] = WInt(MemGet(c.memory, address))])
             [] kind = "LDRH" ->
                  IF rd16.r = "panic" THEN Panic(c, rd16.e[2])
                  ELSE Ok([c EXCEPT !.registers[c.rd] = WInt(rd16.v)])
             [] kind = "STR" -> Arm_write_memory_32(c, address, rd)
             [] kind = "STRB" -> Arm_store_bytes(c, address, <<Lo(rd) % 256>>, 1)
             [] kind = "STRH" -> Arm_write_memory_16(c, address, Lo(rd))

\* the 12-bit immediate never has bit 23 set, so the offset is added as is
Arm_branch(c, link) ==
  LET c1 == IF link THEN [c EXCEPT !.registers[14] = c.pc] ELSE c
  IN  Ok([c1 EXCEPT !.pc = WAdd(c1.pc, <<0, c1.immediate>>)])

Arm_execute_instruction(c) ==
  LET rn == c.registers[c.rn]
      rm == c.registers[c.rm]
      carry_in == WBit(c.cpsr, 29)
      o == c.opcode
      sub == WSub(rn, rm)
      rsb == WSub(rm, rn)
      add == WAdd(rn, rm)
      adc == WAdd(add, <<0, carry_in>>)
      sbc == WSub(sub, <<0, 1 - carry_in>>)
      rsc == WSub(rsb, <<0, 1 - carry_in>>)
  IN  IF ~Arm_check_condition(c, c.condition) THEN Ok(c)
      ELSE
      CASE o = \h0 -> Arm_data(c, WAnd(rn, rm), FALSE, FALSE)
        [] o = \h1 -> Arm_data(c, WXor(rn, rm), FALSE, FALSE)
        [] o = \h2 -> Arm_data(c, sub, ~WLt(rn, rm), Arm_overflow(rn, rm, sub))
        [] o = \h3 -> Arm_data(c, rsb, ~WLt(rm, rn), Arm_overflow(rm, rn, rsb))
        [] o = \h4 -> Arm_data(c, add, WLt(add, rn), Arm_overflow(rn, rm, add))
        [] o = \h5 ->
             Arm_data(c, adc, WLt(adc, rn) \/ (carry_in # 0 /\ adc = rn),
                      Arm_overflow(rn, rm, adc))
        [] o = \h6 ->
             Arm_data(c, sbc, ~WLt(rn, rm) /\ (carry_in # 0 \/ WLt(rm, rn)),
                      Arm_overflow(rn, rm, sbc))
        [] o = \h7 ->
             Arm_data(c, rsc, ~WLt(rm, rn) /\ (carry_in # 0 \/ WLt(rn, rm)),
                      Arm_overflow(rm, rn, rsc))
        [] o = \h8 -> Ok(Arm_update_flags(c, WAnd(rn, rm), FALSE, FALSE))
        [] o = \h9 -> Ok(Arm_update_flags(c, WXor(rn, rm), FALSE, FALSE))
        [] o = \hA ->
             Ok(Arm_update_flags(c, sub, ~WLt(rn, rm), Arm_overflow(rn, rm, sub)))
        [] o = \hB ->
             Ok(Arm_update_flags(c, add, WLt(add, rn), Arm_overflow(rn, rm, add)))
        [] o = \hC -> Arm_data(c, WOr(rn, rm), FALSE, FALSE)
        [] o = \hD -> Arm_data(c, rm, FALSE, FALSE)
        [] o = \hE -> Arm_data(c, WAnd(rn, WNot(rm)), FALSE, FALSE)
        [] o = \hF -> Arm_data(c, WNot(rm), FALSE, FALSE)
        [] o = \h40 -> Arm_load_store(c, "LDR")
        [] o = \h41 -> Arm_load_store(c, "LDRB")
        [] o = \h42 -> Arm_load_store(c, "LDRH")
        [] o = \h44 -> Arm_load_store(c, "STR")
        [] o = \h45 -> Arm_load_store(c, "STRB")
        [] o = \h46 -> Arm_load_store(c, "STRH")
        [] o = \h50 -> Arm_branch(c, FALSE)
        [] o = \h51 -> Arm_branch(c, TRUE)
        [] OTHER -> Fail(c, CpuError("Unimplemented opcode", o))

Arm_step(c) ==
  IF c.halted THEN Ok(c)
  ELSE
    LET fetch == Arm_read_memory_32(c, c.pc)
        hi == Hi(fetch.v)
        lo == Lo(fetch.v)
        c1 == [c EXCEPT !.instruction = fetch.v,
                        !.pc = WAdd(c.pc, <<0, 4>>),
                        !.condition = hi \div 4096,
                        !.opcode = (hi \div 32) % 16,
                        !.rn = hi % 16,
                        !.rd = lo \div 4096,
                        !.rm = lo % 16,
                        !.rs = (lo \div 256) % 16,
                        !.immediate = lo % 4096,
                        !.shift_amount = (lo \div 128) % 32,
                        !.shift_type = (lo \div 32) % 4]
        ex == Arm_execute_instruction(c1)
    IN  IF fetch.r = "panic" THEN Panic(c, fetch.e[2])
        ELSE IF ex.r # "ok" THEN ex
        ELSE Ok([ex.c EXCEPT !.cycles = ex.c.cycles + 1])

\* the vector is read before memory.fill(0)
Arm_reset(c) ==
  LET c1 == [c EXCEPT !.registers = [i \in 0..15 |-> W0]]
      rd == Arm_read_memory_32(c1, W0)
  IN  Ok([c1 EXCEPT !.pc = rd.v, !.cpsr = <<0, \h00D3>>,
                    !.spsr = [i \in 0..4 |-> W0], !.memory = EmptyMem,
                    !.cycles = 0, !.halted = FALSE])

Arm_pc(c) == c.pc
Arm_set_pc(c, pc) == Ok([c EXCEPT !.pc = pc])

Arm_read_memory(c, address) ==
  IF ~Arm_in_memory(address) THEN FailV(MemoryAccessViolation(address))
  ELSE OkV(MemGet(c.memory, address))

Arm_write_memory(c, address, value) ==
  IF ~Arm_in_memory(address) THEN Fail(c, MemoryAccessViolation(address))
  ELSE Ok([c EXCEPT !.memory = MemSet(c.memory, address, value)])

\* entry i + 1 holds the numbered name of register i
Arm_numbered_names ==
  <<"r0", "r1", "r2", "r3", "r4", "r5", "r6", "r7", "r8", "r9", "r10", "r11",
    "r12", "r13", "r14", "r15">>

Arm_is_register(n) ==
  n.s \in {"sp", "lr", "pc"} \/ \E i \in 0..15 : n.s = Arm_numbered_names[i + 1]

Arm_register_index(n) ==
  CASE n.s = "sp" -> 13
    [] n.s = "lr" -> 14
    [] n.s = "pc" -> 15
    [] OTHER -> CHOOSE i \in 0..15 : n.s = Arm_numbered_names[i + 1]

\* "pc" names registers[15], not the pc field that pc() returns
Arm_get_register(c, reg) ==
  LET n == ToLower(reg)
  IN  CASE Arm_is_register(n) -> OkV(c.registers[Arm_register_index(n)])
        [] n = Str("cpsr") -> OkV(c.cpsr)
        [] OTHER -> FailV(CpuError("Unknown register", reg))

Arm_set_register(c, reg, value) ==
  LET n == ToLower(reg)
  IN  CASE Arm_is_register(n) ->
             Ok([c EXCEPT !.registers[Arm_register_index(n)] = value])
        [] n = Str("cpsr") -> Ok([c EXCEPT !.cpsr = value])
        [] OTHER -> Fail(c, CpuError("Unknown register", reg))

Arm_get_flags(c) ==
  [CpuFlagsDefault EXCEPT !.carry = (WBit(c.cpsr, 29) = 1),
                          !.zero = (WBit(c.cpsr, 30) = 1),
                          !.overflow = (WBit(c.cpsr, 28) = 1),
                          !.negative = (WBit(c.cpsr, 31) = 1),
                          !.interrupt_disable = (WBit(c.cpsr, 7) = 1),
                          !.sign = (WBit(c.cpsr, 31) = 1)]

Arm_set_flags(c, flags) ==
  Ok([c EXCEPT !.cpsr =
        SetWBit(SetWBit(SetWBit(SetWBit(SetWBit(c.cpsr, 29, flags.carry),
                                        30, flags.zero), 28, flags.overflow),
                        31, flags.negative), 7, flags.interrupt_disable)])

(***************************************************************************)
(* x86 (src/src/cpu/x86.rs)                                                *)
(***************************************************************************)
X86_new ==
  [arch |-> "x86", eax |-> W0, ebx |-> W0, ecx |-> W0, edx |-> W0, esi |-> W0,
   edi |-> W0, ebp |-> W0, esp |-> W0, cs |-> 0, ds |-> 0, es |-> 0, fs |-> 0,
   gs |-> 0, ss |-> 0, eip |-> W0, eflags |-> <<0, 2>>, memory |-> EmptyMem,
   cycles |-> 0, halted |-> FALSE, opcode |-> 0, modrm |-> 0, sib |-> 0,
   displacement |-> W0, immediate |-> W0]

\* an index below self.memory.len() = 0x10000000
X86_in_memory(address) == Hi(address) < \h1000

X86_read_memory_32(c, address) ==
  IF ~X86_in_memory(address) \/ ~X86_in_memory(WAdd(address, <<0, 3>>))
  THEN PanicV("index out of bounds")
  ELSE OkV(FromLeBytes(MemGet(c.memory, address),
                       MemGet(c.memory, WAdd(address, <<0, 1>>)),
                       MemGet(c.memory, WAdd(address, <<0, 2>>)),
                       MemGet(c.memory, WAdd(address, <<0, 3>>))))

X86_read_memory_16(c, address) ==
  IF ~X86_in_memory(address) \/ ~X86_in_memory(WAdd(address, <<0, 1>>))
  THEN PanicV("index out of bounds")
  ELSE OkV(MemGet(c.memory, WAdd(address, <<0, 1>>)) * 256 + MemGet(c.memory, address))

RECURSIVE X86_store_bytes(_, _, _, _)
\* store bytes[k..] at address, address + 1, ... until an index is out of
\* bounds
X86_store_bytes(c, address, bytes, k) ==
  IF k > Len(bytes) THEN Ok(c)
  ELSE IF ~X86_in_memory(address) THEN Panic(c, "index out of bounds")
  ELSE X86_store_bytes([c EXCEPT !.memory = MemSet(c.memory, address, bytes[k])],
                       WAdd(address, <<0, 1>>), bytes, k + 1)

X86_write_memory_32(c, address, value) ==
  X86_store_bytes(c, address,
                  <<WByte(value, 0), WByte(value, 1), WByte(value, 2), WByte(value, 3)>>, 1)

\* get_register(reg: u8)
X86_reg(c, reg) ==
  CASE reg = 0 -> c.eax [] reg = 1 -> c.ecx [] reg = 2 -> c.edx
    [] reg = 3 -> c.ebx [] reg = 4 -> c.esp [] reg = 5 -> c.ebp
    [] reg = 6 -> c.esi [] reg = 7 -> c.edi [] OTHER -> W0

\* set_register(reg: u8, value)
X86_set_reg(c, reg, value) ==
  CASE reg = 0 -> [c EXCEPT !.eax = value] [] reg = 1 -> [c EXCEPT !.ecx = value]
    [] reg = 2 -> [c EXCEPT !.edx = value] [] reg = 3 -> [c EXCEPT !.ebx = value]
    [] reg = 4 -> [c EXCEPT !.esp = value] [] reg = 5 -> [c EXCEPT !.ebp = value]
    [] reg = 6 -> [c EXCEPT !.esi = value] [] reg = 7 -> [c EXCEPT !.edi = value]
    [] OTHER -> c

\* a + b with the + operator: [v |-> the wrapped sum, o |-> it overflowed]
X86_plus(a, b) == [v |-> WAdd(a.v, b.v), o |-> a.o \/ b.o \/ WAddOverflows(a.v, b.v)]
X86_val(w) == [v |-> w, o |-> FALSE]

\* base_addr + (index_addr * scale) + disp of the SIB arms
X86_sib_address(c, disp) ==
  LET k == (c.sib \div 64) % 4
      index == (c.sib \div 8) % 8
      base == c.sib % 8
      base_addr == X86_reg(c, base)
      index_addr == IF index = 4 THEN W0 ELSE X86_reg(c, index)
      scaled == [v |-> WShl(index_addr, k),
                 o |-> k > 0 /\ WShr(index_addr, 32 - k) # W0]
  IN  X86_plus(X86_plus(X86_val(base_addr), scaled), X86_val(disp))

X86_effective_address_sum(c) ==
  LET mod_val == (c.modrm \div 64) % 4
      rm_val == c.modrm % 8
      disp8 == SignExt8(Lo(c.displacement) % 256)
  IN  CASE mod_val = 0 ->
             (CASE rm_val = 4 -> X86_sib_address(c, c.displacement)
                [] rm_val = 5 -> X86_val(c.displacement)
                [] OTHER -> X86_plus(X86_val(X86_reg(c, rm_val)), X86_val(c.displacement)))
        [] mod_val = 1 ->
             (CASE rm_val = 4 -> X86_sib_address(c, disp8)
                [] OTHER -> X86_plus(X86_val(X86_reg(c, rm_val)), X86_val(disp8)))
        [] mod_val = 2 ->
             (CASE rm_val = 4 -> X86_sib_address(c, c.displacement)
                [] OTHER -> X86_plus(X86_val(X86_reg(c, rm_val)), X86_val(c.displacement)))
        [] mod_val = 3 -> X86_val(X86_reg(c, rm_val))

X86_get_effective_address(c) ==
  LET sum == X86_effective_address_sum(c)
  IN  IF sum.o /\ OverflowPanics THEN PanicV("attempt to add with overflow")
      ELSE OkV(sum.v)

X86_update_flags(c, result, carry, overflow) ==
  [c EXCEPT !.eflags =
     SetWBit(SetWBit(SetWBit(SetWBit(c.eflags, 6, result = W0),
                             7, Hi(result) >= \h8000), 0, carry), 11, overflow)]

\* (dest & 0xFFFFFF00) | (value as u32)
X86_low_byte(dest, value) == <<Hi(dest), (Lo(dest) \div 256) * 256 + value>>

\* the four MOV arms; wide selects the 32-bit forms, load the direction
X86_mov(c, wide, load) ==
  LET reg == (c.modrm \div 8) % 8
      rm == c.modrm % 8
      mod_val == (c.modrm \div 64) % 4
      src == IF load THEN rm ELSE reg
      dst == IF load THEN reg ELSE rm
      ea == X86_get_effective_address(c)
      rd32 == X86_read_memory_32(c, ea.v)
  IN  IF mod_val = 3
      THEN Ok(X86_set_reg(c, dst,
                IF wide THEN X86_reg(c, src)
                ELSE X86_low_byte(X86_reg(c, dst), Lo(X86_reg(c, src)) % 256)))
      ELSE IF ea.r = "panic" THEN Panic(c, ea.e[2])
      ELSE CASE ~wide /\ ~load ->
                  X86_store_bytes(c, ea.v, <<Lo(X86_reg(c, reg)) % 256>>, 1)
             [] wide /\ ~load -> X86_write_memory_32(c, ea.v, X86_reg(c, reg))
             [] ~wide /\ load ->
                  IF ~X86_in_memory(ea.v) THEN Panic(c, "index out of bounds")
                  ELSE Ok(X86_set_reg(c, reg,
                            X86_low_byte(X86_reg(c, reg), MemGet(c.memory, ea.v))))
             [] wide /\ load ->
                  IF rd32.r = "panic" THEN Panic(c, rd32.e[2])
                  ELSE Ok(X86_set_reg(c, reg, rd32.v))

\* ADD r/m8, r8 and SUB r/m8, r8: the wrapping result, the carry and the
\* overflow of the two byte operands
X86_arith8_result(kind, reg_value, rm_value) ==
  IF kind = "add" THEN (reg_value + rm_value) % 256
  ELSE (rm_value - reg_value + 256) % 256

X86_arith8_carry(kind, reg_value, rm_value, result) ==
  IF kind = "add" THEN result < reg_value ELSE rm_value < reg_value

X86_arith8_overflow(kind, reg_value, rm_value, result) ==
  IF kind = "add"
  THEN Bit16(reg_value, 7) # Bit16(result, 7) /\ Bit16(rm_value, 7) # Bit16(result, 7)
  ELSE Bit16(rm_value, 7) # Bit16(reg_value, 7) /\ Bit16(rm_value, 7) # Bit16(result, 7)

\* the result stored in the register or the memory byte, then update_flags
X86_arith8_store(c, kind, rm, mod_val, address, reg_value, rm_value, result) ==
  Ok(X86_update_flags(
       IF mod_val = 3 THEN X86_set_reg(c, rm, X86_low_byte(X86_reg(c, rm), result))
       ELSE [c EXCEPT !.memory = MemSet(c.memory, address, result)],
       WInt(result),
       X86_arith8_carry(kind, reg_value, rm_value, result),
       X86_arith8_overflow(kind, reg_value, rm_value, result)))

X86_arith8_at(c, kind, reg, rm, mod_val, ea) ==
  IF mod_val # 3 /\ ea.r = "panic" THEN Panic(c, ea.e[2])
  ELSE IF mod_val # 3 /\ ~X86_in_memory(ea.v) THEN Panic(c, "index out of bounds")
  ELSE X86_arith8_store(c, kind, rm, mod_val, ea.v,
         Lo(X86_reg(c, reg)) % 256,
         IF mod_val = 3 THEN Lo(X86_reg(c, rm)) % 256 ELSE MemGet(c.memory, ea.v),
         X86_arith8_result(kind, Lo(X86_reg(c, reg)) % 256,
           IF mod_val = 3 THEN Lo(X86_reg(c, rm)) % 256 ELSE MemGet(c.memory, ea.v)))

X86_arith8(c, kind) ==
  X86_arith8_at(c, kind, (c.modrm \div 8) % 8, c.modrm % 8, (c.modrm \div 64) % 4,
                X86_get_effective_address(c))

\* ADD r/m32, r32 and SUB r/m32, r32
X86_arith32_result(kind, reg_value, rm_value) ==
  IF kind = "add" THEN WAdd(reg_value, rm_value) ELSE WSub(rm_value, reg_value)

X86_arith32_carry(kind, reg_value, rm_value, result) ==
  IF kind = "add" THEN WLt(result, reg_value) ELSE WLt(rm_value, reg_value)

X86_arith32_overflow(kind, reg_value, rm_value, result) ==
  IF kind = "add"
  THEN WBit(reg_value, 31) # WBit(result, 31) /\ WBit(rm_value, 31) # WBit(result, 31)
  ELSE WBit(rm_value, 31) # WBit(reg_value, 31) /\ WBit(rm_value, 31) # WBit(result, 31)

\* stored is the outcome of writing the result back
X86_arith32_flags(stored, kind, reg_value, rm_value, result) ==
  IF stored.r = "panic" THEN stored
  ELSE Ok(X86_update_flags(stored.c, result,
            X86_arith32_carry(kind, reg_value, rm_value, result),
            X86_arith32_overflow(kind, reg_value, rm_value, result)))

X86_arith32_store(c, kind, rm, mod_val, address, reg_value, rm_value, result) ==
  X86_arith32_flags(IF mod_val = 3 THEN Ok(X86_set_reg(c, rm, result))
                    ELSE X86_write_memory_32(c, address, result),
                    kind, reg_value, rm_value, result)

X86_arith32_values(c, kind, rm, mod_val, address, reg_value, rm_value) ==
  X86_arith32_store(c, kind, rm, mod_val, address, reg_value, rm_value,
                    X86_arith32_result(kind, reg_value, rm_value))

X86_arith32_read(c, kind, reg, rm, mod_val, address, rd32) ==
  IF mod_val # 3 /\ rd32.r = "panic" THEN Panic(c, rd32.e[2])
  ELSE X86_arith32_values(c, kind, rm, mod_val, address, X86_reg(c, reg),
                          IF mod_val = 3 THEN X86_reg(c, rm) ELSE rd32.v)

X86_arith32_at(c, kind, reg, rm, mod_val, ea) ==
  IF mod_val # 3 /\ ea.r = "panic" THEN Panic(c, ea.e[2])
  ELSE X86_arith32_read(c, kind, reg, rm, mod_val, ea.v, X86_read_memory_32(c, ea.v))

X86_arith32(c, kind) ==
  X86_arith32_at(c, kind, (c.modrm \div 8) % 8, c.modrm % 8, (c.modrm \div 64) % 4,
                 X86_get_effective_address(c))

X86_execute_instruction(c) ==
  LET o == c.opcode
  IN  CASE o = \h88 -> X86_mov(c, FALSE, FALSE)
        [] o = \h89 -> X86_mov(c, TRUE, FALSE)
        [] o = \h8A -> X86_mov(c, FALSE, TRUE)
        [] o = \h8B -> X86_mov(c, TRUE, TRUE)
        [] o = \h00 -> X86_arith8(c, "add")
        [] o = \h01 -> X86_arith32(c, "add")
        [] o = \h28 -> X86_arith8(c, "sub")
        [] o = \h29 -> X86_arith32(c, "sub")
        [] o = \hE9 -> Ok([c EXCEPT !.eip = WAdd(c.eip, c.immediate)])
        [] o = \hEB -> Ok([c EXCEPT !.eip = WAdd(c.eip, SignExt8(Lo(c.immediate) % 256))])
        [] o = \hE8 ->
             LET c1 == [c EXCEPT !.esp = WSub(c.esp, <<0, 4>>)]
                 w == X86_write_memory_32(c1, c1.esp, c1.eip)
             IN  IF WSubOverflows(c.esp, <<0, 4>>) /\ OverflowPanics
                 THEN Panic(c, "attempt to subtract with overflow")
                 ELSE IF w.r = "panic" THEN w
                 ELSE Ok([w.c EXCEPT !.eip = WAdd(w.c.eip, w.c.immediate)])
        [] o = \hC3 ->
             LET rd == X86_read_memory_32(c, c.esp)
             IN  IF rd.r = "panic" THEN Panic(c, rd.e[2])
                 ELSE Ok([c EXCEPT !.eip = rd.v, !.esp = WAdd(c.esp, <<0, 4>>)])
        [] o = \h90 -> Ok(c)
        [] OTHER -> Fail(c, CpuError("Unimplemented opcode", o))

X86_needs_modrm(opcode) ==
  \/ opcode >= \h00 /\ opcode <= \h03
  \/ opcode >= \h08 /\ opcode <= \h0B
  \/ opcode >= \h20 /\ opcode <= \h23
  \/ opcode >= \h28 /\ opcode <= \h2B
  \/ opcode >= \h80 /\ opcode <= \h83
  \/ opcode >= \h88 /\ opcode <= \h8B

X86_needs_sib(modrm) == modrm % 8 = 4
X86_needs_immediate(opcode) == opcode \in {\hE8, \hE9, \hEB}
X86_is_32_bit_immediate(opcode) == opcode \in {\hE8, \hE9}

\* one byte fetched at eip into the named field, eip advanced
X86_fetch_byte(c, field) ==
  IF ~X86_in_memory(c.eip) THEN Panic(c, "index out of bounds")
  ELSE LET b == MemGet(c.memory, c.eip)
           next == WAdd(c.eip, <<0, 1>>)
       IN  Ok(CASE field = "opcode" -> [c EXCEPT !.opcode = b, !.eip = next]
                [] field = "modrm" -> [c EXCEPT !.modrm = b, !.eip = next]
                [] field = "sib" -> [c EXCEPT !.sib = b, !.eip = next]
                [] field = "displacement" ->
                     [c EXCEPT !.displacement = <<0, b>>, !.eip = next])

X86_decode_displacement(c) ==
  LET mod_val == (c.modrm \div 64) % 4
      rd == X86_read_memory_32(c, c.eip)
  IN  CASE mod_val = 1 -> X86_fetch_byte(c, "displacement")
        [] mod_val = 2 ->
             IF rd.r = "panic" THEN Panic(c, rd.e[2])
             ELSE Ok([c EXCEPT !.displacement = rd.v, !.eip = WAdd(c.eip, <<0, 4>>)])
        [] OTHER -> Ok(c)

\* m is the outcome of fetching the ModR/M byte
X86_decode_sib(m) ==
  IF m.r = "panic" THEN m
  ELSE IF X86_needs_sib(m.c.modrm) THEN X86_fetch_byte(m.c, "sib")
  ELSE m

X86_decode_after_sib(sb) ==
  IF sb.r = "panic" THEN sb ELSE X86_decode_displacement(sb.c)

X86_decode_modrm(c) ==
  IF ~X86_needs_modrm(c.opcode) THEN Ok(c)
  ELSE X86_decode_after_sib(X86_decode_sib(X86_fetch_byte(c, "modrm")))

X86_decode_immediate(c) ==
  LET rd32 == X86_read_memory_32(c, c.eip)
      rd16 == X86_read_memory_16(c, c.eip)
  IN  IF ~X86_needs_immediate(c.opcode) THEN Ok(c)
      ELSE IF X86_is_32_bit_immediate(c.opcode)
      THEN IF rd32.r = "panic" THEN Panic(c, rd32.e[2])
           ELSE Ok([c EXCEPT !.immediate = rd32.v, !.eip = WAdd(c.eip, <<0, 4>>)])
      ELSE IF rd16.r = "panic" THEN Panic(c, rd16.e[2])
           ELSE Ok([c EXCEPT !.immediate = <<0, rd16.v>>, !.eip = WAdd(c.eip, <<0, 2>>)])

\* the stages of step: each takes the outcome of the stage before it
X86_step_count(ex) ==
  IF ex.r # "ok" THEN ex ELSE Ok([ex.c EXCEPT !.cycles = ex.c.cycles + 1])

X86_step_execute(i) ==
  IF i.r = "panic" THEN i ELSE X86_step_count(X86_execute_instruction(i.c))

X86_step_immediate(m) ==
  IF m.r = "panic" THEN m ELSE X86_step_execute(X86_decode_immediate(m.c))

X86_step_modrm(f) ==
  IF f.r = "panic" THEN f ELSE X86_step_immediate(X86_decode_modrm(f.c))

X86_step(c) ==
  IF c.halted THEN Ok(c) ELSE X86_step_modrm(X86_fetch_byte(c, "opcode"))

\* the reset vector 0xFFFFFFF0 is read with read_memory_32, that is by indexing
\* the 0x10000000-byte memory
X86_reset(c) ==
  LET c1 == [c EXCEPT !.eax = W0, !.ebx = W0, !.ecx = W0, !.edx = W0, !.esi = W0,
                      !.edi = W0, !.ebp = W0, !.esp = W0, !.cs = 0, !.ds = 0,
                      !.es = 0, !.fs = 0, !.gs = 0, !.ss = 0]
      rd == X86_read_memory_32(c1, <<\hFFFF, \hFFF0>>)
  IN  IF rd.r = "panic" THEN Panic(c1, rd.e[2])
      ELSE Ok([c1 EXCEPT !.eip = rd.v, !.eflags = <<0, 2>>, !.memory = EmptyMem,
                         !.cycles = 0, !.halted = FALSE])

X86_pc(c) == c.eip
X86_set_pc(c, pc) == Ok([c EXCEPT !.eip = pc])

X86_read_memory(c, address) ==
  IF ~X86_in_memory(address) THEN FailV(MemoryAccessViolation(address))
  ELSE OkV(MemGet(c.memory, address))

X86_write_memory(c, address, value) ==
  IF ~X86_in_memory(address) THEN Fail(c, MemoryAccessViolation(address))
  ELSE Ok([c EXCEPT !.memory = MemSet(c.memory, address, value)])

X86_get_register(c, reg) ==
  LET n == ToLower(reg)
  IN  CASE n = Str("eax") -> OkV(c.eax) [] n = Str("ebx") -> OkV(c.ebx)
        [] n = Str("ecx") -> OkV(c.ecx) [] n = Str("edx") -> OkV(c.edx)
        [] n = Str("esi") -> OkV(c.esi) [] n = Str("edi") -> OkV(c.edi)
        [] n = Str("ebp") -> OkV(c.ebp) [] n = Str("esp") -> OkV(c.esp)
        [] n = Str("cs") -> OkV(WInt(c.cs)) [] n = Str("ds") -> OkV(WInt(c.ds))
        [] n = Str("es") -> OkV(WInt(c.es)) [] n = Str("fs") -> OkV(WInt(c.fs))
        [] n = Str("gs") -> OkV(WInt(c.gs)) [] n = Str("ss") -> OkV(WInt(c.ss))
        [] n = Str("eip") -> OkV(c.eip)
        [] n = Str("eflags") -> OkV(c.eflags)
        [] OTHER -> FailV(CpuError("Unknown register", reg))

\* the segment registers are u16: value as u16
X86_set_register(c, reg, value) ==
  LET n == ToLower(reg)
  IN  CASE n = Str("eax") -> Ok([c EXCEPT !.eax = value])
        [] n = Str("ebx") -> Ok([c EXCEPT !.ebx = value])
        [] n = Str("ecx") -> Ok([c EXCEPT !.ecx = value])
        [] n = Str("edx") -> Ok([c EXCEPT !.edx = value])
        [] n = Str("esi") -> Ok([c EXCEPT !.esi = value])
        [] n = Str("edi") -> Ok([c EXCEPT !.edi = value])
        [] n = Str("ebp") -> Ok([c EXCEPT !.ebp = value])
        [] n = Str("esp") -> Ok([c EXCEPT !.esp = value])
        [] n = Str("cs") -> Ok([c EXCEPT !.cs = Lo(value)])
        [] n = Str("ds") -> Ok([c EXCEPT !.ds = Lo(value)])
        [] n = Str("es") -> Ok([c EXCEPT !.es = Lo(value)])
        [] n = Str("fs") -> Ok([c EXCEPT !.fs = Lo(value)])
        [] n = Str("gs") -> Ok([c EXCEPT !.gs = Lo(value)])
        [] n = Str("ss") -> Ok([c EXCEPT !.ss = Lo(value)])
        [] n = Str("eip") -> Ok([c EXCEPT !.eip = value])
        [] n = Str("eflags") -> Ok([c EXCEPT !.eflags = value])
        [] OTHER -> Fail(c, CpuError("Unknown register", reg))

X86_get_flags(c) ==
  [CpuFlagsDefault EXCEPT !.carry = (WBit(c.eflags, 0) = 1),
                          !.zero = (WBit(c.eflags, 6) = 1),
                          !.overflow = (WBit(c.eflags, 11) = 1),
                          !.negative = (WBit(c.eflags, 7) = 1),
                          !.interrupt_disable = (WBit(c.eflags, 9) = 1),
                          !.sign = (WBit(c.eflags, 7) = 1),
                          !.parity = (WBit(c.eflags, 2) = 1),
                          !.auxiliary_carry = (WBit(c.eflags, 4) = 1)]

X86_set_flags(c, flags) ==
  Ok([c EXCEPT !.eflags =
        SetWBit(SetWBit(SetWBit(SetWBit(SetWBit(SetWBit(SetWBit(c.eflags,
          0, flags.carry), 6, flags.zero), 11, flags.overflow), 7, flags.negative),
          9, flags.interrupt_disable), 2, flags.parity), 4, flags.auxiliary_carry)])

(***************************************************************************)
(* The Cpu trait (src/src/cpu/mod.rs): each method dispatches to the       *)
(* implementation behind the Box<dyn Cpu>.                                 *)
(***************************************************************************)
\* CpuFactory::create, matching on cpu_type.to_lowercase()
CpuFactory_create(cpu_type) ==
  LET n == ToLower(cpu_type)
  IN  CASE n = Str("6502") \/ n = Str("mos6502") -> Ok(Mos6502_new)
        [] n = Str("68000") \/ n = Str("m68k") -> Ok(M68k_new)
        [] n = Str("mips") -> Ok(Mips_new)
        [] n = Str("x86") \/ n = Str("i386") -> Ok(X86_new)
        [] n = Str("arm") -> Ok(Arm_new)
        [] OTHER -> Fail(<<>>, CpuError("Unsupported CPU type", cpu_type))

Cpu_step(c) ==
  CASE c.arch = "6502" -> Mos6502_step(c)
    [] c.arch = "68000" -> M68k_step(c)
    [] c.arch = "mips" -> Mips_step(c)
    [] c.arch = "x86" -> X86_step(c)
    [] c.arch = "arm" -> Arm_step(c)
    [] c.arch = "generic" -> GenericCpu_step(c)

Cpu_reset(c) ==
  CASE c.arch = "6502" -> Mos6502_reset(c)
    [] c.arch = "68000" -> M68k_reset(c)
    [] c.arch = "mips" -> Mips_reset(c)
    [] c.arch = "x86" -> X86_reset(c)
    [] c.arch = "arm" -> Arm_reset(c)
    [] c.arch = "generic" -> GenericCpu_reset(c)

Cpu_pc(c) ==
  CASE c.arch = "6502" -> Mos6502_pc(c)
    [] c.arch = "68000" -> M68k_pc(c)
    [] c.arch = "mips" -> Mips_pc(c)
    [] c.arch = "x86" -> X86_pc(c)
    [] c.arch = "arm" -> Arm_pc(c)
    [] c.arch = "generic" -> GenericCpu_pc(c)

Cpu_set_pc(c, pc) ==
  CASE c.arch = "6502" -> Mos6502_set_pc(c, pc)
    [] c.arch = "68000" -> M68k_set_pc(c, pc)
    [] c.arch = "mips" -> Mips_set_pc(c, pc)
    [] c.arch = "x86" -> X86_set_pc(c, pc)
    [] c.arch = "arm" -> Arm_set_pc(c, pc)
    [] c.arch = "generic" -> GenericCpu_set_pc(c, pc)

Cpu_read_memory(c, address) ==
  CASE c.arch = "6502" -> Mos6502_read_memory(c, address)
    [] c.arch = "68000" -> M68k_read_memory(c, address)
    [] c.arch = "mips" -> Mips_read_memory(c, address)
    [] c.arch = "x86" -> X86_read_memory(c, address)
    [] c.arch = "arm" -> Arm_read_memory(c, address)
    [] c.arch = "generic" -> GenericCpu_read_memory(c, address)

Cpu_write_memory(c, address, value) ==
  CASE c.arch = "6502" -> Mos6502_write_memory(c, address, value)
    [] c.arch = "68000" -> M68k_write_memory(c, address, value)
    [] c.arch = "mips" -> Mips_write_memory(c, address, value)
    [] c.arch = "x86" -> X86_write_memory(c, address, value)
    [] c.arch = "arm" -> Arm_write_memory(c, address, value)
    [] c.arch = "generic" -> GenericCpu_write_memory(c, address, value)

Cpu_get_register(c, reg) ==
  CASE c.arch = "6502" -> Mos6502_get_register(c, reg)
    [] c.arch = "68000" -> M68k_get_register(c, reg)
    [] c.arch = "mips" -> Mips_get_register(c, reg)
    [] c.arch = "x86" -> X86_get_register(c, reg)
    [] c.arch = "arm" -> Arm_get_register(c, reg)
    [] c.arch = "generic" -> GenericCpu_get_register(c, reg)

Cpu_set_register(c, reg, value) ==
  CASE c.arch = "6502" -> Mos6502_set_register(c, reg, value)
    [] c.arch = "68000" -> M68k_set_register(c, reg, value)
    [] c.arch = "mips" -> Mips_set_register(c, reg, value)
    [] c.arch = "x86" -> X86_set_register(c, reg, value)
    [] c.arch = "arm" -> Arm_set_register(c, reg, value)
    [] c.arch = "generic" -> GenericCpu_set_register(c, reg, value)

Cpu_get_flags(c) ==
  CASE c.arch = "6502" -> Mos6502_get_flags(c)
    [] c.arch = "68000" -> M68k_get_flags(c)
    [] c.arch = "mips" -> Mips_get_flags(c)
    [] c.arch = "x86" -> X86_get_flags(c)
    [] c.arch = "arm" -> Arm_get_flags(c)
    [] c.arch = "generic" -> GenericCpu_get_flags(c)

Cpu_set_flags(c, flags) ==
  CASE c.arch = "6502" -> Mos6502_set_flags(c, flags)
    [] c.arch = "68000" -> M68k_set_flags(c, flags)
    [] c.arch = "mips" -> Mips_set_flags(c, flags)
    [] c.arch = "x86" -> X86_set_flags(c, flags)
    [] c.arch = "arm" -> Arm_set_flags(c, flags)
    [] c.arch = "generic" -> GenericCpu_set_flags(c, flags)

Cpu_is_halted(c) == c.halted

(***************************************************************************)
(* A CPU driven through the Cpu trait.  op records the last call: its      *)
(* name, arguments, outcome, and the CPU as it was before the call.        *)
(***************************************************************************)
\* the number of trait calls made on one CPU
MaxCalls == 4

Builds == {"debug", "release"}

\* the names CpuFactory::create is given, and the GenericCpu built directly
CpuTypes == {Str("6502"), Str("68000"), Str("mips"), Str("x86"), Str("arm")}

NoOp == [name |-> "new", args |-> <<>>, r |-> "ok", e |-> <<>>, v |-> <<>>, pre |-> <<>>]

Idle == <<>>

CpuAddresses(arch) ==
  CASE arch = "6502" ->
         {<<0, \h0010>>, <<0, \h0080>>, <<0, \h0110>>, <<0, \h1000>>, <<0, \hFFFC>>, <<1, 0>>}
    [] arch = "generic" -> {<<0, 0>>, <<0, 1>>, <<0, 8>>}
    [] arch = "68000" -> {<<0, 0>>, <<0, 1>>, <<0, 3>>, <<\h0100, 0>>}
    [] OTHER -> {<<0, 0>>, <<0, 3>>, <<\h1000, 0>>}

CpuBytes(arch) ==
  CASE arch = "6502" -> {\h42, \hEA}
    [] arch = "generic" -> {\h01, \h20}
    [] arch = "68000" -> {\h4E, \h71}
    [] arch = "mips" -> {\h20, \hFF}
    [] arch = "x86" -> {\h90, \hC3}
    [] arch = "arm" -> {\hE0, \h01}

CpuPcValues(arch) ==
  CASE arch = "6502" -> {<<0, \h0080>>, <<0, \hFFFF>>, <<1, \h0080>>}
    [] arch = "generic" -> {<<0, 1>>, <<0, 8>>}
    [] arch = "68000" -> {<<0, 2>>, <<\h0100, 0>>}
    [] OTHER -> {<<0, 4>>, <<\h1000, 0>>}

\* a call can be made on a CPU whose thread has not panicked
CpuLive == op.r # "panic" /\ calls < MaxCalls

CpuCall(name, args, res, v) ==
  /\ cpu' = res.c
  /\ op' = [name |-> name, args |-> args, r |-> res.r, e |-> res.e, v |-> v, pre |-> cpu]
  /\ calls' = calls + 1
  /\ UNCHANGED <<build, bus, plat>>

CpuStep ==
  /\ CpuLive
  /\ CpuCall("step", <<>>, Cpu_step(cpu), <<>>)

CpuReset ==
  /\ CpuLive
  /\ CpuCall("reset", <<>>, Cpu_reset(cpu), <<>>)

CpuSetPc ==
  /\ CpuLive
  /\ \E pc \in CpuPcValues(cpu.arch) :
       CpuCall("set_pc", <<pc>>, Cpu_set_pc(cpu, pc), <<>>)

CpuWriteMemory ==
  /\ CpuLive
  /\ \E address \in CpuAddresses(cpu.arch), value \in CpuBytes(cpu.arch) :
       CpuCall("write_memory", <<address, value>>,
               Cpu_write_memory(cpu, address, value), <<>>)

CpuReadMemory ==
  /\ CpuLive
  /\ \E address \in CpuAddresses(cpu.arch) :
       LET rd == Cpu_read_memory(cpu, address)
       IN  CpuCall("read_memory", <<address>>, [c |-> cpu, r |-> rd.r, e |-> rd.e], rd.v)

InitCpu ==
  /\ build \in Builds
  /\ \/ \E t \in CpuTypes : cpu = CpuFactory_create(t).c
     \/ cpu = GenericCpu_new
  /\ op = NoOp
  /\ bus = Idle
  /\ plat = Idle
  /\ calls = 0

NextCpu == CpuStep \/ CpuReset \/ CpuSetPc \/ CpuWriteMemory \/ CpuReadMemory

SpecCpu == InitCpu /\ [][NextCpu]_vars

(***************************************************************************)
(* get_registers() of every implementation: the HashMap it builds, its     *)
(* keys the names as the code spells them.                                 *)
(***************************************************************************)
Mos6502_get_registers(c) ==
  [n \in {Str("a"), Str("x"), Str("y"), Str("sp"), Str("pc")} |-> WInt(c[n.s])]

M68k_get_registers(c) ==
  [n \in DOMAIN M68k_register_names \cup {Str("pc"), Str("sr")} |->
     M68k_get_register(c, n).v]

\* format!("r{}", i) for the 32 registers, then "pc"
Mips_get_registers(c) ==
  [n \in {Str(Mips_numbered_names[i + 1]) : i \in 0..31} \cup {Str("pc")} |->
     IF n = Str("pc") THEN c.pc
     ELSE c.registers[CHOOSE i \in 0..31 : n.s = Mips_numbered_names[i + 1]]]

X86_get_registers(c) ==
  [n \in {Str("eax"), Str("ebx"), Str("ecx"), Str("edx"), Str("esi"), Str("edi"),
          Str("ebp"), Str("esp"), Str("cs"), Str("ds"), Str("es"), Str("fs"),
          Str("gs"), Str("ss"), Str("eip"), Str("eflags")} |->
     X86_get_register(c, n).v]

\* format!("r{}", i) for the 16 registers, then "pc" from the pc field and
\* "cpsr"
Arm_get_registers(c) ==
  [n \in {Str(Arm_numbered_names[i + 1]) : i \in 0..15}
         \cup {Str("pc"), Str("cpsr")} |->
     CASE n = Str("pc") -> c.pc
       [] n = Str("cpsr") -> c.cpsr
       [] OTHER -> c.registers[CHOOSE i \in 0..15 : n.s = Arm_numbered_names[i + 1]]]

\* self.registers.clone()
GenericCpu_get_registers(c) == c.registers

Cpu_get_registers(c) ==
  CASE c.arch = "6502" -> Mos6502_get_registers(c)
    [] c.arch = "68000" -> M68k_get_registers(c)
    [] c.arch = "mips" -> Mips_get_registers(c)
    [] c.arch = "x86" -> X86_get_registers(c)
    [] c.arch = "arm" -> Arm_get_registers(c)
    [] c.arch = "generic" -> GenericCpu_get_registers(c)

(***************************************************************************)
(* SpecPc: the program counter of a CPU set through set_pc and through     *)
(* set_register, read through get_register and get_registers, and moved    *)
(* by step().                                                              *)
(***************************************************************************)
MaxPcCalls == 3

PcNames(arch) == IF arch = "x86" THEN {Str("pc"), Str("eip")} ELSE {Str("pc")}

PcLive == op.r # "panic" /\ calls < MaxPcCalls

PcSetPc ==
  /\ PcLive
  /\ \E pc \in CpuPcValues(cpu.arch) :
       CpuCall("set_pc", <<pc>>, Cpu_set_pc(cpu, pc), <<>>)

PcSetRegister ==
  /\ PcLive
  /\ \E reg \in PcNames(cpu.arch), value \in CpuPcValues(cpu.arch) :
       CpuCall("set_register", <<reg, value>>, Cpu_set_register(cpu, reg, value), <<>>)

PcGetRegister ==
  /\ PcLive
  /\ \E reg \in PcNames(cpu.arch) :
       CpuCall("get_register", <<reg>>,
               [c |-> cpu, r |-> Cpu_get_register(cpu, reg).r,
                e |-> Cpu_get_register(cpu, reg).e],
               Cpu_get_register(cpu, reg).v)

PcGetRegisters ==
  /\ PcLive
  /\ CpuCall("get_registers", <<>>, Ok(cpu), Cpu_get_registers(cpu))

PcStep ==
  /\ PcLive
  /\ CpuCall("step", <<>>, Cpu_step(cpu), <<>>)

NextPc == PcSetPc \/ PcSetRegister \/ PcGetRegister \/ PcGetRegisters \/ PcStep

SpecPc == InitCpu /\ [][NextPc]_vars

(***************************************************************************)
(* Register and flag access through the Cpu trait: SpecReg.                *)
(***************************************************************************)
MaxRegCalls == 2

\* register names handed to get_register / set_register: names the
\* implementation matches, spellings of them in another letter case, and a
\* name no implementation knows
RegNames(arch) ==
  CASE arch = "6502" ->
         {Str("a"), Str("x"), Str("y"), Str("sp"), Str("pc"), Caps("a", {1}),
          Caps("pc", {1, 2}), Str("q")}
    [] arch = "68000" ->
         {Str("d0"), Str("d7"), Str("a0"), Str("a7"), Str("pc"), Str("sr"),
          Caps("d0", {1}), Caps("sr", {1, 2}), Str("q")}
    [] arch = "mips" ->
         {Str("r0"), Str("r1"), Str("r31"), Str("zero"), Str("at"), Str("sp"),
          Str("ra"), Str("pc"), Caps("sp", {1, 2}), Str("q")}
    [] arch = "x86" ->
         {Str("eax"), Str("ebx"), Str("ecx"), Str("edx"), Str("esi"), Str("edi"),
          Str("ebp"), Str("esp"), Str("cs"), Str("ds"), Str("es"), Str("fs"),
          Str("gs"), Str("ss"), Str("eip"), Str("eflags"), Caps("eax", {1, 2, 3}),
          Str("q")}
    [] arch = "arm" ->
         {Str("r0"), Str("r13"), Str("r15"), Str("sp"), Str("lr"), Str("pc"),
          Str("cpsr"), Caps("cpsr", {1, 2, 3, 4}), Str("q")}
    [] arch = "generic" ->
         {Str("r0"), Str("r7"), Str("pc"), Str("sp"), Caps("r0", {1}), Str("q")}

\* 0x34, 0x1234, 0x10000
RegValues == {<<0, \h0034>>, <<0, \h1234>>, <<1, 0>>}

FlagValues ==
  {CpuFlagsDefault,
   [CpuFlagsDefault EXCEPT !.carry = TRUE, !.zero = TRUE],
   [CpuFlagsDefault EXCEPT !.negative = TRUE, !.overflow = TRUE,
                           !.interrupt_disable = TRUE],
   [f \in FlagNames |-> TRUE]}

RegLive == op.r # "panic" /\ calls < MaxRegCalls

RegSetRegister ==
  /\ RegLive
  /\ \E reg \in RegNames(cpu.arch), value \in RegValues :
       CpuCall("set_register", <<reg, value>>, Cpu_set_register(cpu, reg, value), <<>>)

RegGetRegister ==
  /\ RegLive
  /\ \E reg \in RegNames(cpu.arch) :
       LET rd == Cpu_get_register(cpu, reg)
       IN  CpuCall("get_register", <<reg>>, [c |-> cpu, r |-> rd.r, e |-> rd.e], rd.v)

\* the flags handed to set_flags: a value of the caller, or the one
\* get_flags() just returned
RegSetFlags ==
  /\ RegLive
  /\ \E flags \in FlagValues \cup {Cpu_get_flags(cpu)} :
       CpuCall("set_flags", <<flags>>, Cpu_set_flags(cpu, flags), <<>>)

RegGetFlags ==
  /\ RegLive
  /\ CpuCall("get_flags", <<>>, Ok(cpu), Cpu_get_flags(cpu))

RegReset ==
  /\ RegLive
  /\ CpuCall("reset", <<>>, Cpu_reset(cpu), <<>>)

NextReg == RegSetRegister \/ RegGetRegister \/ RegSetFlags \/ RegGetFlags \/ RegReset

SpecReg == InitCpu /\ [][NextReg]_vars

(***************************************************************************)
(* The memory bus (src/src/memory/mod.rs).  A device's data: Vec<u8> is    *)
(* its length len and the sparse memory mem of its non-zero bytes.         *)
(***************************************************************************)
WLe(a, b) == ~WLt(b, a)

\* vec![0; size]
ZeroData(size) == [len |-> size, mem |-> EmptyMem]

\* offset as usize >= self.data.len() is false
DataHas(data, offset) == WLt(offset, WInt(data.len))

\* offset as usize, for an offset inside the data
DataIndex(offset) == Hi(offset) * H16 + Lo(offset)

RamDevice_new(size, start_address, name) ==
  [kind |-> "ram", data |-> ZeroData(size), start_address |-> start_address,
   name |-> name]

RomDevice_new(data, start_address, name) ==
  [kind |-> "rom", data |-> data, start_address |-> start_address, name |-> name]

\* let offset = address - self.start_address, and the bounds check on it
RamDevice_read(d, address) ==
  IF WSubOverflows(address, d.start_address) /\ OverflowPanics
  THEN PanicV("attempt to subtract with overflow")
  ELSE IF ~DataHas(d.data, WSub(address, d.start_address))
  THEN FailV(MemoryAccessViolation(address))
  ELSE OkV(MemGet(d.data.mem, DataIndex(WSub(address, d.start_address))))

RamDevice_write(d, address, value) ==
  IF WSubOverflows(address, d.start_address) /\ OverflowPanics
  THEN Panic(d, "attempt to subtract with overflow")
  ELSE IF ~DataHas(d.data, WSub(address, d.start_address))
  THEN Fail(d, MemoryAccessViolation(address))
  ELSE Ok([d EXCEPT !.data.mem = MemSet(@, DataIndex(WSub(address, d.start_address)), value)])

\* (self.start_address, self.start_address + self.data.len() as u32 - 1)
RamDevice_range(d) ==
  IF OverflowPanics /\ WAddOverflows(d.start_address, WInt(d.data.len))
  THEN PanicV("attempt to add with overflow")
  ELSE IF OverflowPanics /\ WAdd(d.start_address, WInt(d.data.len)) = W0
  THEN PanicV("attempt to subtract with overflow")
  ELSE OkV(<<d.start_address,
             WSub(WAdd(d.start_address, WInt(d.data.len)), <<0, 1>>)>>)

RamDevice_reset(d) == Ok([d EXCEPT !.data.mem = EmptyMem])

RomDevice_read(d, address) ==
  IF WSubOverflows(address, d.start_address) /\ OverflowPanics
  THEN PanicV("attempt to subtract with overflow")
  ELSE IF ~DataHas(d.data, WSub(address, d.start_address))
  THEN FailV(MemoryAccessViolation(address))
  ELSE OkV(MemGet(d.data.mem, DataIndex(WSub(address, d.start_address))))

\* a variant of RomDevice::write that stores the byte as a RamDevice does,
\* against which C17_ProtectedAccessFails is tested
RomDevice_write_through(d, address, value) == RamDevice_write(d, address, value)

RomDevice_write(d, address, value) == Fail(d, MemoryAccessViolation(address))

RomDevice_range(d) ==
  IF OverflowPanics /\ WAddOverflows(d.start_address, WInt(d.data.len))
  THEN PanicV("attempt to add with overflow")
  ELSE IF OverflowPanics /\ WAdd(d.start_address, WInt(d.data.len)) = W0
  THEN PanicV("attempt to subtract with overflow")
  ELSE OkV(<<d.start_address,
             WSub(WAdd(d.start_address, WInt(d.data.len)), <<0, 1>>)>>)

RomDevice_reset(d) == Ok(d)

\* the MemoryDevice trait object behind the Arc<RwLock<..>>
MemoryDevice_read(d, address) ==
  IF d.kind = "ram" THEN RamDevice_read(d, address) ELSE RomDevice_read(d, address)

MemoryDevice_write(d, address, value) ==
  IF d.kind = "ram" THEN RamDevice_write(d, address, value)
  ELSE RomDevice_write(d, address, value)

MemoryDevice_range(d) ==
  IF d.kind = "ram" THEN RamDevice_range(d) ELSE RomDevice_range(d)

MemoryDevice_reset(d) ==
  IF d.kind = "ram" THEN RamDevice_reset(d) ELSE RomDevice_reset(d)

\* devices is the HashMap from name to device, regions the Vec<MemoryRegion>
MemoryMapper_new(address_space_size) ==
  [devices |-> [n \in {} |-> 0], regions |-> <<>>,
   address_space_size |-> address_space_size]

\* the mutated overlap test: ranges that only touch at one end are let through
MemoryMapper_overlaps_strictly(region, start, end) ==
  ~(WLe(end, region.start) \/ WLe(region.end, start))

\* a variant of the overlap test that only looks at where the new range
\* starts, against which C19_RegionsNeverOverlap is tested
MemoryMapper_overlaps_at_start(region, start, end) ==
  WLe(region.start, start) /\ WLe(start, region.end)

\* !(end < region.start || start > region.end)
MemoryMapper_overlaps(region, start, end) ==
  ~(WLt(end, region.start) \/ WLt(region.end, start))

\* self.devices.insert(name, device)
MemoryMapper_insert(devices, name, device) ==
  [n \in (DOMAIN devices) \cup {name} |-> IF n = name THEN device ELSE devices[n]]

\* regions.push(region) followed by the stable sort_by_key(|r| r.start): the
\* new region goes behind every region whose start is not greater
MemoryMapper_push_sorted(regions, region) ==
  LET before == {i \in 1..Len(regions) : WLe(regions[i].start, region.start)}
      k == Cardinality(before)
  IN  SubSeq(regions, 1, k) \o <<region>> \o SubSeq(regions, k + 1, Len(regions))

MemoryMapper_add_checked(m, name, device, start, end) ==
  IF \E i \in 1..Len(m.regions) : MemoryMapper_overlaps(m.regions[i], start, end)
  THEN Fail(m, MemoryAccessViolation(start))
  ELSE Ok([m EXCEPT
             !.devices = MemoryMapper_insert(@, name, device),
             !.regions = MemoryMapper_push_sorted(@,
                           [start |-> start, end |-> end, access |-> "ReadWrite",
                            name |-> name, device |-> name])])

MemoryMapper_add_ranged(m, name, device, rg) ==
  IF rg.r = "panic" THEN Panic(m, rg.e[2])
  ELSE MemoryMapper_add_checked(m, name, device, rg.v[1], rg.v[2])

MemoryMapper_add_device(m, name, device) ==
  MemoryMapper_add_ranged(m, name, device, MemoryDevice_range(device))

MemoryMapper_remove_device(m, name) ==
  LET keep(r) == r.name # name
  IN  Ok([m EXCEPT !.devices = [n \in (DOMAIN @) \ {name} |-> @[n]],
                   !.regions = SelectSeq(@, keep)])

\* address >= region.start && address <= region.end
MemoryMapper_contains(region, address) ==
  WLe(region.start, address) /\ WLe(address, region.end)

\* the mutated fall-through of read: an unmapped address reads as 0
MemoryMapper_read_open_bus(address) == OkV(0)

\* "No device mapped to this address"
MemoryMapper_read_unmapped(address) == FailV(MemoryAccessViolation(address))

RECURSIVE MemoryMapper_read_from(_, _, _)
\* the loop of read over regions[i..]
MemoryMapper_read_from(m, address, i) ==
  IF i > Len(m.regions) THEN MemoryMapper_read_unmapped(address)
  ELSE IF ~MemoryMapper_contains(m.regions[i], address)
  THEN MemoryMapper_read_from(m, address, i + 1)
  ELSE IF m.regions[i].access \in {"WriteOnly", "NoAccess"}
  THEN FailV(MemoryAccessViolation(address))
  ELSE IF m.regions[i].device \in DOMAIN m.devices
  THEN MemoryDevice_read(m.devices[m.regions[i].device], address)
  ELSE MemoryMapper_read_from(m, address, i + 1)

MemoryMapper_read(m, address) ==
  IF ~WLt(address, m.address_space_size) THEN FailV(MemoryAccessViolation(address))
  ELSE MemoryMapper_read_from(m, address, 1)

\* the outcome w of the device's write, with the device put back on the bus
MemoryMapper_written(m, name, w) ==
  [c |-> [m EXCEPT !.devices[name] = w.c], r |-> w.r, e |-> w.e]

RECURSIVE MemoryMapper_write_from(_, _, _, _)
\* the loop of write over regions[i..]
MemoryMapper_write_from(m, address, value, i) ==
  IF i > Len(m.regions) THEN Fail(m, MemoryAccessViolation(address))
  ELSE IF ~MemoryMapper_contains(m.regions[i], address)
  THEN MemoryMapper_write_from(m, address, value, i + 1)
  ELSE IF m.regions[i].access \in {"ReadOnly", "NoAccess"}
  THEN Fail(m, MemoryAccessViolation(address))
  ELSE IF m.regions[i].device \in DOMAIN m.devices
  THEN MemoryMapper_written(m, m.regions[i].device,
         MemoryDevice_write(m.devices[m.regions[i].device], address, value))
  ELSE MemoryMapper_write_from(m, address, value, i + 1)

MemoryMapper_write(m, address, value) ==
  IF ~WLt(address, m.address_space_size) THEN Fail(m, MemoryAccessViolation(address))
  ELSE MemoryMapper_write_from(m, address, value, 1)

\* read16: low = read(address)?, high = read(address + 1)?
MemoryMapper_read16_high(low, high) ==
  IF high.r # "ok" THEN high ELSE OkV(high.v * 256 + low.v)

MemoryMapper_read16_low(m, address, low) ==
  IF low.r # "ok" THEN low
  ELSE IF OverflowPanics /\ WAddOverflows(address, <<0, 1>>)
  THEN PanicV("attempt to add with overflow")
  ELSE MemoryMapper_read16_high(low, MemoryMapper_read(m, WAdd(address, <<0, 1>>)))

MemoryMapper_read16(m, address) ==
  MemoryMapper_read16_low(m, address, MemoryMapper_read(m, address))

\* read32: low = read16(address)?, high = read16(address + 2)?
MemoryMapper_read32_high(low, high) ==
  IF high.r # "ok" THEN high
  ELSE OkV(FromLeBytes(low.v % 256, low.v \div 256, high.v % 256, high.v \div 256))

MemoryMapper_read32_low(m, address, low) ==
  IF low.r # "ok" THEN low
  ELSE IF OverflowPanics /\ WAddOverflows(address, <<0, 2>>)
  THEN PanicV("attempt to add with overflow")
  ELSE MemoryMapper_read32_high(low, MemoryMapper_read16(m, WAdd(address, <<0, 2>>)))

MemoryMapper_read32(m, address) ==
  MemoryMapper_read32_low(m, address, MemoryMapper_read16(m, address))

\* self.write(address + k, value)? after the writes whose outcome is w
MemoryMapper_write_then(w, address, k, value) ==
  IF w.r # "ok" THEN w
  ELSE IF OverflowPanics /\ WAddOverflows(address, <<0, k>>)
  THEN Panic(w.c, "attempt to add with overflow")
  ELSE MemoryMapper_write(w.c, WAdd(address, <<0, k>>), value)

\* a variant of write16 that stores the high byte first, against which
\* C18_LittleEndianWords is tested
MemoryMapper_write16_high_first(m, address, value) ==
  MemoryMapper_write_then(MemoryMapper_write(m, address, value \div 256),
                          address, 1, value % 256)

\* value is a u16
MemoryMapper_write16(m, address, value) ==
  MemoryMapper_write_then(MemoryMapper_write(m, address, value % 256),
                          address, 1, value \div 256)

MemoryMapper_write32(m, address, value) ==
  MemoryMapper_write_then(
    MemoryMapper_write_then(
      MemoryMapper_write_then(MemoryMapper_write(m, address, WByte(value, 0)),
                              address, 1, WByte(value, 1)),
      address, 2, WByte(value, 2)),
    address, 3, WByte(value, 3))

\* every device's reset returns Ok
MemoryMapper_reset(m) ==
  Ok([m EXCEPT !.devices = [n \in DOMAIN @ |-> MemoryDevice_reset(@[n]).c]])

(***************************************************************************)
(* A MemoryMapper driven through its public methods: SpecBus.  op records  *)
(* the last call and the bus as it was before the call.                    *)
(***************************************************************************)
MaxBusCalls == 3

BusSpaceSizes == {<<0, 8>>, <<\hFFFF, \hFFFF>>}
BusNames == {"A", "B"}
BusStarts == {<<0, 0>>, <<0, 2>>, <<\hFFFF, \hFFFE>>}
BusSizes == {0, 3}
BusAddresses ==
  {<<0, 0>>, <<0, 2>>, <<0, 4>>, <<0, 5>>, <<0, 9>>, <<\hFFFF, \hFFFE>>}

\* the bytes of a ROM image of the given size: 0x11, 0x12, ...
RomImage(size) == [len |-> size, mem |-> [i \in 0..(size - 1) |-> \h11 + i]]

BusDevices ==
  {RamDevice_new(size, start, name) :
     size \in BusSizes, start \in BusStarts, name \in BusNames}
  \cup {RomDevice_new(RomImage(size), start, name) :
          size \in BusSizes, start \in BusStarts, name \in BusNames}

BusLive == op.r # "panic" /\ calls < MaxBusCalls

BusCall(name, args, res, v) ==
  /\ bus' = res.c
  /\ op' = [name |-> name, args |-> args, r |-> res.r, e |-> res.e, v |-> v, pre |-> bus]
  /\ calls' = calls + 1
  /\ UNCHANGED <<build, cpu, plat>>

\* the result of a &self method: the bus is left as it is
BusQuery(rd) == [c |-> bus, r |-> rd.r, e |-> rd.e]

BusAddDevice ==
  /\ BusLive
  /\ \E device \in BusDevices :
       BusCall("add_device", <<device.name, device>>,
               MemoryMapper_add_device(bus, device.name, device), <<>>)

BusRemoveDevice ==
  /\ BusLive
  /\ \E name \in BusNames :
       BusCall("remove_device", <<name>>, MemoryMapper_remove_device(bus, name), <<>>)

BusRead ==
  /\ BusLive
  /\ \E address \in BusAddresses :
       BusCall("read", <<address>>, BusQuery(MemoryMapper_read(bus, address)),
               MemoryMapper_read(bus, address).v)

BusWrite ==
  /\ BusLive
  /\ \E address \in BusAddresses :
       BusCall("write", <<address, \hAB>>, MemoryMapper_write(bus, address, \hAB), <<>>)

BusRead16 ==
  /\ BusLive
  /\ \E address \in BusAddresses :
       BusCall("read16", <<address>>, BusQuery(MemoryMapper_read16(bus, address)),
               MemoryMapper_read16(bus, address).v)

BusWrite16 ==
  /\ BusLive
  /\ \E address \in BusAddresses :
       BusCall("write16", <<address, \hABCD>>,
               MemoryMapper_write16(bus, address, \hABCD), <<>>)

BusRead32 ==
  /\ BusLive
  /\ \E address \in BusAddresses :
       BusCall("read32", <<address>>, BusQuery(MemoryMapper_read32(bus, address)),
               MemoryMapper_read32(bus, address).v)

BusWrite32 ==
  /\ BusLive
  /\ \E address \in BusAddresses :
       BusCall("write32", <<address, <<\h1234, \hABCD>>>>,
               MemoryMapper_write32(bus, address, <<\h1234, \hABCD>>), <<>>)

BusReset ==
  /\ BusLive
  /\ BusCall("reset", <<>>, MemoryMapper_reset(bus), <<>>)

InitBus ==
  /\ build \in Builds
  /\ cpu = Idle
  /\ op = NoOp
  /\ \E size \in BusSpaceSizes : bus = MemoryMapper_new(size)
  /\ plat = Idle
  /\ calls = 0

NextBus ==
  \/ BusAddDevice \/ BusRemoveDevice \/ BusRead \/ BusWrite \/ BusRead16
  \/ BusWrite16 \/ BusRead32 \/ BusWrite32 \/ BusReset

SpecBus == InitBus /\ [][NextBus]_vars

(***************************************************************************)
(* SpecWords: a MemoryMapper and devices of four bytes, two of which fit   *)
(* side by side; its devices are added and removed and its bytes, words    *)
(* and dwords read and written.                                            *)
(***************************************************************************)
WordDevices ==
  {RamDevice_new(4, <<0, 0>>, "A"), RamDevice_new(4, <<0, 2>>, "A"),
   RamDevice_new(4, <<0, 4>>, "B"), RomDevice_new(RomImage(4), <<0, 2>>, "B")}

WordsAddDevice ==
  /\ BusLive
  /\ \E device \in WordDevices :
       BusCall("add_device", <<device.name, device>>,
               MemoryMapper_add_device(bus, device.name, device), <<>>)

NextWords ==
  \/ WordsAddDevice \/ BusRemoveDevice \/ BusRead \/ BusWrite \/ BusRead16
  \/ BusWrite16 \/ BusRead32 \/ BusWrite32

SpecWords == InitBus /\ [][NextWords]_vars

(***************************************************************************)
(* SpecRegions: a MemoryMapper to which devices with disjoint ranges are   *)
(* added, two of them under one name, and whose bytes are read and         *)
(* written.                                                                *)
(***************************************************************************)
RegionDevices ==
  {RomDevice_new(RomImage(4), <<0, 0>>, "A"), RamDevice_new(4, <<0, 4>>, "A"),
   RomDevice_new(RomImage(2), <<0, 4>>, "B"), RamDevice_new(2, <<0, 9>>, "C")}

RegionsAddDevice ==
  /\ BusLive
  /\ \E device \in RegionDevices :
       BusCall("add_device", <<device.name, device>>,
               MemoryMapper_add_device(bus, device.name, device), <<>>)

NextRegions == RegionsAddDevice \/ BusRead \/ BusWrite

SpecRegions == InitBus /\ [][NextRegions]_vars

(***************************************************************************)
(* MemoryBankController (src/src/memory/mod.rs): banks of bank_size bytes, *)
(* one of which is current.  A bank is a sequence of bytes, bank number n  *)
(* being banks[n + 1] and offset o of a bank its element o + 1.            *)
(***************************************************************************)
\* vec![vec![0; bank_size]; total_banks], current_bank 0
MemoryBankController_new(bank_size, total_banks) ==
  [banks |-> [b \in 1..total_banks |-> [i \in 1..bank_size |-> 0]],
   current_bank |-> 0,
   bank_size |-> bank_size,
   total_banks |-> total_banks]

\* a variant of switch_bank that selects the bank before it tests the number,
\* against which C20_BadSwitchChangesNothing is tested
MemoryBankController_switch_bank_unchecked(m, bank) ==
  IF bank >= m.total_banks
  THEN Fail([m EXCEPT !.current_bank = bank], MemoryAccessViolation(WInt(bank)))
  ELSE Ok([m EXCEPT !.current_bank = bank])

MemoryBankController_switch_bank(m, bank) ==
  IF bank >= m.total_banks
  THEN Fail(m, MemoryAccessViolation(WInt(bank)))
  ELSE Ok([m EXCEPT !.current_bank = bank])

\* self.banks[self.current_bank] of a controller without banks is an index
\* out of bounds
MemoryBankController_read(m, address) ==
  IF ~WLt(address, WInt(m.bank_size))
  THEN FailV(MemoryAccessViolation(address))
  ELSE IF m.current_bank >= Len(m.banks)
       THEN PanicV("index out of bounds")
       ELSE OkV(m.banks[m.current_bank + 1][Lo(address) + 1])

\* a variant of write that stores into bank 0 whatever bank is selected,
\* against which C21_AccessesSelectedBankOnly is tested
MemoryBankController_write_bank_0(m, address, value) ==
  IF ~WLt(address, WInt(m.bank_size))
  THEN Fail(m, MemoryAccessViolation(address))
  ELSE IF m.current_bank >= Len(m.banks)
       THEN Panic(m, "index out of bounds")
       ELSE Ok([m EXCEPT !.banks[1][Lo(address) + 1] = value])

MemoryBankController_write(m, address, value) ==
  IF ~WLt(address, WInt(m.bank_size))
  THEN Fail(m, MemoryAccessViolation(address))
  ELSE IF m.current_bank >= Len(m.banks)
       THEN Panic(m, "index out of bounds")
       ELSE Ok([m EXCEPT !.banks[m.current_bank + 1][Lo(address) + 1] = value])

MemoryBankController_load_bank(m, bank, data) ==
  IF bank >= m.total_banks
  THEN Fail(m, MemoryAccessViolation(WInt(bank)))
  ELSE IF Len(data) # m.bank_size
       THEN Fail(m, MemoryAccessViolation(WInt(Len(data))))
       ELSE Ok([m EXCEPT !.banks[bank + 1] = data])

(***************************************************************************)
(* SpecBank: a MemoryBankController, held in the variable bus, whose       *)
(* methods are called with bank numbers below, at and above total_banks.   *)
(***************************************************************************)
MaxBankCalls == 3

\* <<bank_size, total_banks>> of the controllers constructed
BankShapes == {<<2, 0>>, <<2, 2>>, <<1, 3>>}

BankNumbers == 0..3

BankAddresses == {<<0, 0>>, <<0, 1>>, <<0, 2>>, <<1, 0>>}

BankImages == {<<\h11>>, <<\h11, \h12>>, <<\h11, \h12, \h13>>}

BankLive == op.r # "panic" /\ calls < MaxBankCalls

BankSwitch ==
  /\ BankLive
  /\ \E bank \in BankNumbers :
       BusCall("switch_bank", <<bank>>, MemoryBankController_switch_bank(bus, bank), <<>>)

BankRead ==
  /\ BankLive
  /\ \E address \in BankAddresses :
       BusCall("read", <<address>>, BusQuery(MemoryBankController_read(bus, address)),
               MemoryBankController_read(bus, address).v)

BankWrite ==
  /\ BankLive
  /\ \E address \in BankAddresses :
       BusCall("write", <<address, \hAB>>,
               MemoryBankController_write(bus, address, \hAB), <<>>)

BankLoad ==
  /\ BankLive
  /\ \E bank \in BankNumbers : \E data \in BankImages :
       BusCall("load_bank", <<bank, data>>,
               MemoryBankController_load_bank(bus, bank, data), <<>>)

InitBank ==
  /\ build \in Builds
  /\ cpu = Idle
  /\ op = NoOp
  /\ \E shape \in BankShapes : bus = MemoryBankController_new(shape[1], shape[2])
  /\ plat = Idle
  /\ calls = 0

NextBank == BankSwitch \/ BankRead \/ BankWrite \/ BankLoad

SpecBank == InitBank /\ [][NextBank]_vars

(***************************************************************************)
(* SpecProgram: a 6502 or a MIPS CPU on which a caller sets a register or  *)
(* the program counter, places the bytes of an instruction at the address  *)
(* held in the program counter with write_memory, and calls step().        *)
(***************************************************************************)
MaxProgCalls == 3

ProgTypes == {Str("6502"), Str("mips")}

\* LDA #0x42, LDA #0x00, LDA #0x80; ADDI $2, $1, 10 (0x2022000A),
\* ADDI $1, $1, -1 (0x2021FFFF), ADDI $3, $1, 0x7FFF (0x20237FFF) and
\* ADDU $2, $1, $1 (0x00211021), in the byte order of the architecture
ProgPrograms(arch) ==
  CASE arch = "6502" -> {<<\hA9, \h42>>, <<\hA9, \h00>>, <<\hA9, \h80>>}
    [] arch = "mips" ->
         {<<\h0A, \h00, \h22, \h20>>, <<\hFF, \hFF, \h21, \h20>>,
          <<\hFF, \h7F, \h23, \h20>>, <<\h21, \h10, \h21, \h00>>}

ProgRegisters(arch) ==
  CASE arch = "6502" -> {Str("x")}
    [] arch = "mips" -> {Str("r1"), Str("r2")}

ProgValues(arch) ==
  CASE arch = "6502" -> {<<0, \h0034>>}
    [] arch = "mips" -> {<<0, 5>>, <<\hFFFF, \hFFFF>>, <<\h7FFF, \h8001>>}

ProgPcValues(arch) ==
  CASE arch = "6502" -> {<<0, \h0080>>, <<0, \h0180>>}
    [] arch = "mips" -> {<<0, \h0100>>}

RECURSIVE WriteBytes(_, _, _, _)
\* write_memory(address, bytes[k])?; write_memory(address + 1, bytes[k + 1])?; ...
WriteBytes(c, address, bytes, k) ==
  IF k > Len(bytes) THEN Ok(c)
  ELSE IF Cpu_write_memory(c, address, bytes[k]).r # "ok"
  THEN Cpu_write_memory(c, address, bytes[k])
  ELSE WriteBytes(Cpu_write_memory(c, address, bytes[k]).c, WAdd(address, <<0, 1>>),
                  bytes, k + 1)

ProgLive == op.r # "panic" /\ calls < MaxProgCalls

ProgPlace ==
  /\ ProgLive
  /\ \E bytes \in ProgPrograms(cpu.arch) :
       CpuCall("place", <<bytes>>, WriteBytes(cpu, Cpu_pc(cpu), bytes, 1), <<>>)

ProgSetRegister ==
  /\ ProgLive
  /\ \E reg \in ProgRegisters(cpu.arch), value \in ProgValues(cpu.arch) :
       CpuCall("set_register", <<reg, value>>, Cpu_set_register(cpu, reg, value), <<>>)

ProgSetPc ==
  /\ ProgLive
  /\ \E pc \in ProgPcValues(cpu.arch) :
       CpuCall("set_pc", <<pc>>, Cpu_set_pc(cpu, pc), <<>>)

ProgStep ==
  /\ ProgLive
  /\ CpuCall("step", <<>>, Cpu_step(cpu), <<>>)

InitProgram ==
  /\ build \in Builds
  /\ \E t \in ProgTypes : cpu = CpuFactory_create(t).c
  /\ op = NoOp
  /\ bus = Idle
  /\ plat = Idle
  /\ calls = 0

NextProgram == ProgPlace \/ ProgSetRegister \/ ProgSetPc \/ ProgStep

SpecProgram == InitProgram /\ [][NextProgram]_vars

(***************************************************************************)
(* Platforms (src/src/platforms).  A platform owns its Cpu, its            *)
(* MemoryMapper, its chips and its cartridge.  Four fields record the      *)
(* calls made on the owned parts: stepped counts the step() calls on the   *)
(* Cpu and on each chip since the platform was built or last reset, n the  *)
(* step() calls on the platform that returned Ok in that time, trace lists *)
(* the parts stepped by the last Platform::step(), in call order, and      *)
(* after_reset holds when reset() returned Ok and every call since was a   *)
(* step() that returned Ok.                                                *)
(* File contents (a ROM image read from rom_path) are data records like    *)
(* those of the bus devices.                                               *)
(***************************************************************************)
Stepped(p, part) ==
  [p EXCEPT !.stepped[part] = @ + 1, !.trace = Append(@, part)]

InvalidRom(msg) == <<"InvalidRom", msg>>
UnsupportedPlatform(msg) == <<"UnsupportedPlatform", msg>>

\* data[index] of a byte vector
DataGet(data, index) == MemGet(data.mem, index)

\* data[from .. from + size].to_vec(), for a range inside the data
DataSlice(data, from, size) ==
  [len |-> size,
   mem |-> [i \in {k - from : k \in {j \in DOMAIN data.mem : j >= from /\ j < from + size}}
              |-> data.mem[i + from]]]

(***************************************************************************)
(* Atari 2600 (src/src/platforms/atari2600.rs)                             *)
(***************************************************************************)
\* of the TIA the scanline position; every register is 0 and stays 0, no
\* operation of the platform writes a TIA register
TiaChip_new == [cycle |-> 0, scanline |-> 0]

TiaChip_step(tia) ==
  IF tia.cycle + 1 >= 228
  THEN [cycle |-> 0, scanline |-> IF tia.scanline + 1 >= 262 THEN 0 ELSE tia.scanline + 1]
  ELSE [tia EXCEPT !.cycle = @ + 1]

JoystickState_default ==
  [up |-> FALSE, down |-> FALSE, left |-> FALSE, right |-> FALSE, fire |-> FALSE]

RiaChip_new ==
  [ram |-> EmptyMem, timer |-> 0, timer_interval |-> 0, timer_enabled |-> FALSE,
   swcha |-> 0, swchb |-> 0, swacnt |-> 0, swbcnt |-> 0,
   joystick0 |-> JoystickState_default, joystick1 |-> JoystickState_default,
   console_switches |-> [tv_type |-> TRUE, left_difficulty |-> FALSE,
                         right_difficulty |-> FALSE, game_select |-> FALSE,
                         game_reset |-> FALSE]]

RiaChip_step(ria) ==
  IF ~ria.timer_enabled THEN ria
  ELSE IF ria.timer > 0 THEN [ria EXCEPT !.timer = @ - 1]
  ELSE [ria EXCEPT !.timer = ria.timer_interval]

\* the arms of the match in the order they are written: the first arm whose
\* pattern holds the address is the one taken
RiaChip_read_register(ria, address) ==
  IF address >= \h80 /\ address <= \hFF THEN MemGet(ria.ram, address - \h80)
  ELSE IF address = \h80 THEN ria.swcha
  ELSE IF address = \h81 THEN ria.swchb
  ELSE IF address = \h82 THEN ria.swacnt
  ELSE IF address = \h83 THEN ria.swbcnt
  ELSE IF address = \h84 THEN ria.timer
  ELSE IF address = \h85 THEN (IF ria.timer_enabled THEN \h80 ELSE 0)
  ELSE 0

RiaChip_write_register(ria, address, value) ==
  IF address >= \h80 /\ address <= \hFF
  THEN [ria EXCEPT !.ram = MemSet(@, address - \h80, value)]
  ELSE IF address = \h80 THEN [ria EXCEPT !.swcha = value]
  ELSE IF address = \h81 THEN [ria EXCEPT !.swchb = value]
  ELSE IF address = \h82 THEN [ria EXCEPT !.swacnt = value]
  ELSE IF address = \h83 THEN [ria EXCEPT !.swbcnt = value]
  ELSE IF address = \h84 THEN [ria EXCEPT !.timer = value, !.timer_enabled = TRUE]
  ELSE IF address = \h85
  THEN [ria EXCEPT !.timer_interval = value, !.timer_enabled = TRUE]
  ELSE ria

\* InputSystem::is_button_pressed does not look at its controller argument:
\* pressed is the set of buttons some key or connected gamepad holds down
InputSystem_is_button_pressed(pressed, controller, button) == button \in pressed

Bit(on, mask) == IF on THEN mask ELSE 0

RiaChip_joystick(pressed, controller) ==
  [up |-> InputSystem_is_button_pressed(pressed, controller, "Up"),
   down |-> InputSystem_is_button_pressed(pressed, controller, "Down"),
   left |-> InputSystem_is_button_pressed(pressed, controller, "Left"),
   right |-> InputSystem_is_button_pressed(pressed, controller, "Right"),
   fire |-> InputSystem_is_button_pressed(pressed, controller, "A")]

RiaChip_swcha(j0) ==
  Bit(~j0.right, \h80) + Bit(~j0.left, \h40) + Bit(~j0.down, \h20) + Bit(~j0.up, \h10)

RiaChip_swchb(j0, j1, switches) ==
  Bit(~j1.right, \h80) + Bit(~j1.left, \h40) + Bit(~j1.down, \h20)
  + Bit(~j1.up, \h10) + Bit(~j0.fire, \h08) + Bit(~j1.fire, \h04)
  + Bit(switches.game_select, \h02) + Bit(switches.game_reset, \h01)

RiaChip_update_input_switches(ria, pressed) ==
  [ria EXCEPT !.joystick0 = RiaChip_joystick(pressed, 0),
              !.joystick1 = RiaChip_joystick(pressed, 1),
              !.console_switches.game_select =
                 InputSystem_is_button_pressed(pressed, 0, "Select"),
              !.console_switches.game_reset =
                 InputSystem_is_button_pressed(pressed, 0, "Start")]

RiaChip_update_input_ports(ria) ==
  [ria EXCEPT !.swcha = RiaChip_swcha(ria.joystick0),
              !.swchb = RiaChip_swchb(ria.joystick0, ria.joystick1,
                                      ria.console_switches)]

RiaChip_update_input(ria, pressed) ==
  RiaChip_update_input_ports(RiaChip_update_input_switches(ria, pressed))

Atari2600_update_input(p, pressed) ==
  Ok([p EXCEPT !.ria = RiaChip_update_input(@, pressed)])

Atari_Cartridge_new ==
  [data |-> ZeroData(0), bank_count |-> 0, current_bank |-> 0, mapper_type |-> "None"]

Atari2600_detect_mapper_type(rom_size) ==
  CASE rom_size = 2048 -> "None"
    [] rom_size = 4096 -> "Atari8K"
    [] rom_size = 8192 -> "Atari16K"
    [] rom_size = 16384 -> "Atari32K"
    [] OTHER -> "None"

\* rom is <<>> for None and <<data>> for Some(data)
Atari2600_new ==
  [kind |-> "atari2600",
   cpu |-> CpuFactory_create(Str("6502")).c,
   memory |-> MemoryMapper_add_device(MemoryMapper_new(<<1, 0>>), "RAM",
                RamDevice_new(128, <<0, \h0080>>, "RAM")).c,
   rom |-> <<>>,
   tia |-> TiaChip_new,
   ria |-> RiaChip_new,
   cart |-> Atari_Cartridge_new,
   cycles |-> 0,
   stepped |-> [part \in {"cpu", "tia", "riot"} |-> 0],
   n |-> 0,
   trace |-> <<>>,
   after_reset |-> FALSE]

\* self.tia.step()?, then self.ria.step()? when cycles % 64 == 0
Atari2600_step_riot(p) ==
  IF p.cycles % 64 = 0
  THEN Ok(Stepped([p EXCEPT !.ria = RiaChip_step(@)], "riot"))
  ELSE Ok(p)

\* the mutated chip order: the RIOT before the TIA
Atari2600_step_chips_riot_first(p) ==
  IF p.cycles % 64 = 0
  THEN Ok(Stepped([Stepped([p EXCEPT !.ria = RiaChip_step(@)], "riot")
                     EXCEPT !.tia = TiaChip_step(@)], "tia"))
  ELSE Ok(Stepped([p EXCEPT !.tia = TiaChip_step(@)], "tia"))

Atari2600_step_chips(p) ==
  Atari2600_step_riot(Stepped([p EXCEPT !.tia = TiaChip_step(@)], "tia"))

\* res is the outcome of self.cpu.step()
Atari2600_step_after_cpu(p, res) ==
  IF res.r # "ok"
  THEN [c |-> Stepped([p EXCEPT !.cpu = res.c], "cpu"), r |-> res.r, e |-> res.e]
  ELSE Atari2600_step_chips(
         Stepped([p EXCEPT !.cpu = res.c, !.cycles = @ + 1], "cpu"))

Atari2600_step_cpu(p) == Atari2600_step_after_cpu(p, Cpu_step(p.cpu))

Atari2600_step(p) == Atari2600_step_cpu(p)

\* the outcome res of a call on the Cpu, as the outcome of the platform
CpuOutcome(p, res) == [c |-> [p EXCEPT !.cpu = res.c], r |-> res.r, e |-> res.e]

Atari2600_reset_after_cpu(p, res) ==
  IF res.r # "ok" THEN CpuOutcome(p, res)
  ELSE Ok([p EXCEPT !.cpu = res.c, !.tia = TiaChip_new, !.ria = RiaChip_new,
                    !.cycles = 0])

Atari2600_reset(p) == Atari2600_reset_after_cpu(p, Cpu_reset(p.cpu))

RECURSIVE Atari2600_write_rom(_, _, _, _, _, _)
\* for (i, &byte) in rom_data.iter().enumerate(), for the indices lo..hi:
\* cpu.write_memory(base + i, byte)? when base + i < limit
Atari2600_write_rom(cpu_res, rom_data, base, limit, lo, hi) ==
  IF cpu_res.r # "ok" \/ lo > hi THEN cpu_res
  ELSE IF lo = hi
  THEN IF base + lo < limit
       THEN Mos6502_write_memory(cpu_res.c, WInt(base + lo), DataGet(rom_data, lo))
       ELSE cpu_res
  ELSE Atari2600_write_rom(
         Atari2600_write_rom(cpu_res, rom_data, base, limit, lo, (lo + hi) \div 2),
         rom_data, base, limit, ((lo + hi) \div 2) + 1, hi)

\* u16::from_le_bytes([rom_data[len - 4], rom_data[len - 3]]), or 0xF000
Atari2600_reset_vector(rom_data) ==
  IF rom_data.len >= 4
  THEN DataGet(rom_data, rom_data.len - 3) * 256 + DataGet(rom_data, rom_data.len - 4)
  ELSE \hF000

Atari2600_set_vector(cpu_res, rom_data) ==
  IF cpu_res.r # "ok" THEN cpu_res
  ELSE Mos6502_set_pc(cpu_res.c, WInt(Atari2600_reset_vector(rom_data)))

Atari2600_load_rom_into_cpu_memory(p, rom_data) ==
  CpuOutcome(p,
    Atari2600_set_vector(
      Atari2600_write_rom(
        Atari2600_write_rom(Ok(p.cpu), rom_data, \h1000, \h2000, 0, rom_data.len - 1),
        rom_data, \hF000, 65536, 0, rom_data.len - 1),
      rom_data))

\* loaded is the outcome of load_rom_into_cpu_memory, res of self.cpu.reset()
Atari2600_load_rom_reset(p, rom_data, res) ==
  IF res.r # "ok" THEN CpuOutcome(p, res)
  ELSE Ok([p EXCEPT !.cpu = res.c, !.cycles = 0, !.rom = <<rom_data>>])

Atari2600_load_rom_loaded(loaded, rom_data) ==
  IF loaded.r # "ok" THEN loaded
  ELSE Atari2600_load_rom_reset(loaded.c, rom_data, Cpu_reset(loaded.c.cpu))

\* added is the outcome of self.memory.add_device("ROM", rom_device)
Atari2600_load_rom_added(p, rom_data, added) ==
  IF added.r # "ok" THEN [c |-> p, r |-> added.r, e |-> added.e]
  ELSE Atari2600_load_rom_loaded(
         Atari2600_load_rom_into_cpu_memory([p EXCEPT !.memory = added.c], rom_data),
         rom_data)

\* p already holds the new cartridge
Atari2600_load_rom_map(p, rom_data) ==
  Atari2600_load_rom_added(p, rom_data,
    MemoryMapper_add_device(p.memory, "ROM",
                            RomDevice_new(rom_data, <<0, \h1000>>, "ROM")))

\* rom_data is what std::fs::read(rom_path) returned
Atari2600_load_rom(p, rom_data) ==
  IF rom_data.len < 2048 \/ rom_data.len > 32768
  THEN Fail(p, InvalidRom("Invalid ROM size"))
  ELSE Atari2600_load_rom_map(
         [p EXCEPT !.cart = [data |-> rom_data,
                             bank_count |-> rom_data.len \div 2048,
                             current_bank |-> 0,
                             mapper_type |-> Atari2600_detect_mapper_type(rom_data.len)]],
         rom_data)

(***************************************************************************)
(* NES (src/src/platforms/nes.rs)                                          *)
(***************************************************************************)
Ppu_new ==
  [ctrl |-> 0, scanline |-> 0, cycle |-> 0, frame |-> 0, nmi_occurred |-> FALSE,
   nmi_output |-> FALSE]

\* after the cycle and scanline counters advanced: "Generate NMI"
Ppu_step_nmi(ppu) ==
  IF ppu.nmi_occurred /\ (ppu.ctrl \div 128) % 2 = 1
  THEN [ppu EXCEPT !.nmi_output = TRUE]
  ELSE ppu

Ppu_step(ppu) ==
  Ppu_step_nmi(
    IF ppu.cycle + 1 < 341 THEN [ppu EXCEPT !.cycle = @ + 1]
    ELSE IF ppu.scanline + 1 < 262 THEN [ppu EXCEPT !.cycle = 0, !.scanline = @ + 1]
    ELSE [ppu EXCEPT !.cycle = 0, !.scanline = 0, !.frame = @ + 1,
                     !.nmi_occurred = TRUE])

\* of the APU the u16 frame counter; the timers of the five channels are 0
\* and their step() leaves a timer that is 0 at 0
Apu_new == [frame_counter |-> 0]

\* self.frame_counter += 1
Apu_step(apu) ==
  IF apu.frame_counter + 1 >= H16
  THEN IF OverflowPanics THEN Panic(apu, "attempt to add with overflow")
       ELSE Ok([apu EXCEPT !.frame_counter = 0])
  ELSE Ok([apu EXCEPT !.frame_counter = @ + 1])

Nes_Cartridge_new ==
  [data |-> ZeroData(0), prg_rom |-> ZeroData(0), chr_rom |-> ZeroData(0),
   mapper |-> 0, mirroring |-> "Horizontal", battery |-> FALSE, trainer |-> FALSE,
   four_screen |-> FALSE]

Nes_new ==
  [kind |-> "nes",
   cpu |-> CpuFactory_create(Str("6502")).c,
   memory |-> MemoryMapper_add_device(MemoryMapper_new(<<1, 0>>), "RAM",
                RamDevice_new(2048, W0, "RAM")).c,
   rom |-> <<>>,
   ppu |-> Ppu_new,
   apu |-> Apu_new,
   cart |-> Nes_Cartridge_new,
   cycles |-> 0,
   stepped |-> [part \in {"cpu", "ppu", "apu"} |-> 0],
   n |-> 0,
   trace |-> <<>>,
   after_reset |-> FALSE]

\* one turn of the loop for _ in 0..3 { self.ppu.step()?; }
Nes_step_ppu(p) == Stepped([p EXCEPT !.ppu = Ppu_step(@)], "ppu")

\* res is the outcome of self.apu.step()
Nes_step_after_apu(p, res) ==
  [c |-> Stepped([p EXCEPT !.apu = res.c], "apu"), r |-> res.r, e |-> res.e]

Nes_step_apu(p) == Nes_step_after_apu(p, Apu_step(p.apu))

\* the mutated chip order: the APU before the PPU
Nes_step_chips_apu_first(p) ==
  [Nes_step_apu(p) EXCEPT !.c = Nes_step_ppu(Nes_step_ppu(Nes_step_ppu(@)))]

Nes_step_chips(p) == Nes_step_apu(Nes_step_ppu(Nes_step_ppu(Nes_step_ppu(p))))

\* res is the outcome of self.cpu.step()
Nes_step_after_cpu(p, res) ==
  IF res.r # "ok"
  THEN [c |-> Stepped([p EXCEPT !.cpu = res.c], "cpu"), r |-> res.r, e |-> res.e]
  ELSE Nes_step_chips(Stepped([p EXCEPT !.cpu = res.c, !.cycles = @ + 1], "cpu"))

Nes_step_cpu(p) == Nes_step_after_cpu(p, Cpu_step(p.cpu))

Nes_step(p) == Nes_step_cpu(p)

Nes_reset_after_cpu(p, res) ==
  IF res.r # "ok" THEN CpuOutcome(p, res)
  ELSE Ok([p EXCEPT !.cpu = res.c, !.ppu = Ppu_new, !.apu = Apu_new, !.cycles = 0])

Nes_reset(p) == Nes_reset_after_cpu(p, Cpu_reset(p.cpu))

\* &header[0..4] != b"NES\x1A" is false
Nes_has_magic(rom_data) ==
  /\ DataGet(rom_data, 0) = \h4E /\ DataGet(rom_data, 1) = \h45
  /\ DataGet(rom_data, 2) = \h53 /\ DataGet(rom_data, 3) = \h1A

\* match (flags6 & 0x08, flags6 & 0x01)
Nes_mirroring(flags6) ==
  LET b3 == ((flags6 \div 8) % 2) * 8
      b0 == flags6 % 2
  IN  CASE b3 = 0 /\ b0 = 0 -> "Horizontal"
        [] b3 = 0 /\ b0 = 1 -> "Vertical"
        [] b3 = 1 -> "FourScreen"
        [] OTHER -> "Horizontal"

\* ((flags7 & 0xF0) | (flags6 >> 4)) as u8
Nes_mapper(flags6, flags7) == (flags7 \div 16) * 16 + (flags6 \div 16)

\* res is the outcome of self.cpu.reset()
Nes_load_rom_reset(p, rom_data, res) ==
  IF res.r # "ok" THEN CpuOutcome(p, res)
  ELSE Ok([p EXCEPT !.cpu = res.c, !.cycles = 0, !.rom = <<rom_data>>])

\* added is the outcome of self.memory.add_device("PRG_ROM", rom_device)
Nes_load_rom_added(p, rom_data, added) ==
  IF added.r # "ok" THEN [c |-> p, r |-> added.r, e |-> added.e]
  ELSE Nes_load_rom_reset([p EXCEPT !.memory = added.c], rom_data, Cpu_reset(p.cpu))

\* p already holds the new cartridge
Nes_load_rom_map(p, rom_data) ==
  Nes_load_rom_added(p, rom_data,
    MemoryMapper_add_device(p.memory, "PRG_ROM",
                            RomDevice_new(p.cart.prg_rom, <<0, \h8000>>, "PRG_ROM")))

\* the slices of the image behind the header, prg_rom from offset on
Nes_load_rom_slices(p, rom_data, offset, prg_rom_size, chr_rom_size) ==
  IF offset + prg_rom_size > rom_data.len
  THEN Panic(p, "range end index out of range for slice")
  ELSE IF chr_rom_size > 0 /\ offset + prg_rom_size + chr_rom_size > rom_data.len
  THEN Panic(p, "range end index out of range for slice")
  ELSE Nes_load_rom_map(
         [p EXCEPT !.cart =
            [data |-> rom_data,
             prg_rom |-> DataSlice(rom_data, offset, prg_rom_size),
             chr_rom |-> IF chr_rom_size > 0
                         THEN DataSlice(rom_data, offset + prg_rom_size, chr_rom_size)
                         ELSE ZeroData(8192),
             mapper |-> Nes_mapper(DataGet(rom_data, 6), DataGet(rom_data, 7)),
             mirroring |-> Nes_mirroring(DataGet(rom_data, 6)),
             battery |-> (DataGet(rom_data, 6) \div 2) % 2 = 1,
             trainer |-> (DataGet(rom_data, 6) \div 4) % 2 = 1,
             four_screen |-> (DataGet(rom_data, 6) \div 8) % 2 = 1]],
         rom_data)

Nes_load_rom(p, rom_data) ==
  IF rom_data.len < 16 THEN Fail(p, InvalidRom("ROM too small"))
  ELSE IF ~Nes_has_magic(rom_data) THEN Fail(p, InvalidRom("Invalid iNES header"))
  ELSE Nes_load_rom_slices(p, rom_data,
         IF (DataGet(rom_data, 6) \div 4) % 2 = 1 THEN 16 + 512 ELSE 16,
         DataGet(rom_data, 4) * 16384, DataGet(rom_data, 5) * 8192)

(***************************************************************************)
(* PlayStation (src/src/platforms/ps1.rs)                                  *)
(***************************************************************************)
Ps1Gpu_new == [scanline |-> 0, cycle |-> 0, frame |-> 0]

Ps1Gpu_step(gpu) ==
  IF gpu.cycle + 1 < 3413 THEN [gpu EXCEPT !.cycle = @ + 1]
  ELSE IF gpu.scanline + 1 < 263 THEN [gpu EXCEPT !.cycle = 0, !.scanline = @ + 1]
  ELSE [gpu EXCEPT !.cycle = 0, !.scanline = 0, !.frame = @ + 1]

SpuVoice_new ==
  [attack_level |-> 0, decay_level |-> 0, adsr_phase |-> "Off", adsr_volume |-> 0,
   key_on |-> FALSE, key_off |-> FALSE]

\* the ADSR phase after the two key flags were taken
SpuVoice_step_envelope(voice) ==
  CASE voice.adsr_phase = "Attack" /\ voice.adsr_volume >= voice.attack_level ->
         [voice EXCEPT !.adsr_phase = "Decay"]
    [] voice.adsr_phase = "Decay" /\ voice.adsr_volume <= voice.decay_level ->
         [voice EXCEPT !.adsr_phase = "Sustain"]
    [] voice.adsr_phase = "Release" /\ voice.adsr_volume <= 0 ->
         [voice EXCEPT !.adsr_phase = "Off"]
    [] OTHER -> voice

SpuVoice_step_key_off(voice) ==
  SpuVoice_step_envelope(
    IF voice.key_off THEN [voice EXCEPT !.adsr_phase = "Release", !.key_off = FALSE]
    ELSE voice)

SpuVoice_step(voice) ==
  SpuVoice_step_key_off(
    IF voice.key_on THEN [voice EXCEPT !.adsr_phase = "Attack", !.key_on = FALSE]
    ELSE voice)

Ps1Spu_new == [voices |-> [i \in 0..23 |-> SpuVoice_new]]

Ps1Spu_step(spu) == [spu EXCEPT !.voices = [i \in 0..23 |-> SpuVoice_step(@[i])]]

Ps1Cdrom_new == [drive_state |-> "Idle", current_sector |-> W0, total_sectors |-> W0]

\* self.current_sector += 1 on a u32
Ps1Cdrom_step(cdrom) ==
  IF cdrom.drive_state # "Reading" THEN Ok(cdrom)
  ELSE IF WAddOverflows(cdrom.current_sector, <<0, 1>>) /\ OverflowPanics
  THEN Panic(cdrom, "attempt to add with overflow")
  ELSE Ok([cdrom EXCEPT
             !.current_sector = WAdd(@, <<0, 1>>),
             !.drive_state =
               IF WLe(cdrom.total_sectors, WAdd(cdrom.current_sector, <<0, 1>>))
               THEN "Idle" ELSE @])

Ps1Cartridge_new ==
  [data |-> ZeroData(0), header |-> [cd_type |-> 0, region |-> 0, version |-> 0],
   region |-> "NTSC"]

\* the RAM (2 MB at 0) and the BIOS (512 KB at 0x1FC00000) are both RamDevices
Ps1_new ==
  [kind |-> "ps1",
   cpu |-> CpuFactory_create(Str("mips")).c,
   memory |-> MemoryMapper_add_device(
                MemoryMapper_add_device(MemoryMapper_new(<<\h2000, 0>>), "RAM",
                  RamDevice_new(2 * 1024 * 1024, W0, "RAM")).c,
                "BIOS", RamDevice_new(512 * 1024, <<\h1FC0, 0>>, "BIOS")).c,
   rom |-> <<>>,
   gpu |-> Ps1Gpu_new,
   spu |-> Ps1Spu_new,
   cdrom |-> Ps1Cdrom_new,
   cart |-> Ps1Cartridge_new,
   cycles |-> 0,
   stepped |-> [part \in {"cpu", "gpu", "spu", "cdrom"} |-> 0],
   n |-> 0,
   trace |-> <<>>,
   after_reset |-> FALSE]

\* res is the outcome of self.cdrom.step()
Ps1_step_after_cdrom(p, res) ==
  [c |-> Stepped([p EXCEPT !.cdrom = res.c], "cdrom"), r |-> res.r, e |-> res.e]

Ps1_step_cdrom(p) == Ps1_step_after_cdrom(p, Ps1Cdrom_step(p.cdrom))

Ps1_step_chips(p) ==
  Ps1_step_cdrom(
    Stepped([Stepped([p EXCEPT !.gpu = Ps1Gpu_step(@)], "gpu")
               EXCEPT !.spu = Ps1Spu_step(@)], "spu"))

\* res is the outcome of self.cpu.step()
Ps1_step_after_cpu(p, res) ==
  IF res.r # "ok"
  THEN [c |-> Stepped([p EXCEPT !.cpu = res.c], "cpu"), r |-> res.r, e |-> res.e]
  ELSE Ps1_step_chips(Stepped([p EXCEPT !.cpu = res.c, !.cycles = @ + 1], "cpu"))

Ps1_step_cpu(p) == Ps1_step_after_cpu(p, Cpu_step(p.cpu))

Ps1_step(p) == Ps1_step_cpu(p)

Ps1_reset_after_cpu(p, res) ==
  IF res.r # "ok" THEN CpuOutcome(p, res)
  ELSE Ok([p EXCEPT !.cpu = res.c, !.gpu = Ps1Gpu_new, !.spu = Ps1Spu_new,
                    !.cdrom = Ps1Cdrom_new, !.cycles = 0])

Ps1_reset(p) == Ps1_reset_after_cpu(p, Cpu_reset(p.cpu))

\* of Ps1Header::parse the three byte fields; the text fields of the header
\* are left out
Ps1Header_parse(data) ==
  IF data.len < 2048 THEN FailV(InvalidRom("ROM too small for header"))
  ELSE OkV([cd_type |-> DataGet(data, 15), region |-> DataGet(data, 14),
            version |-> DataGet(data, 13)])

Ps1Region_from_byte(region) ==
  CASE region = \h41 -> OkV("NTSC")
    [] region = \h44 -> OkV("PAL")
    [] region = \h49 -> OkV("NTSCJ")
    [] OTHER -> FailV(InvalidRom("Unknown region"))

RECURSIVE Ps1_write_bios(_, _, _, _)
\* bios_device.write(0x1FC00000 + i, byte)? for the indices lo..hi of the file
Ps1_write_bios(dev_res, bios_data, lo, hi) ==
  IF dev_res.r # "ok" \/ lo > hi THEN dev_res
  ELSE IF lo = hi
  THEN RamDevice_write(dev_res.c, WAdd(<<\h1FC0, 0>>, WInt(lo)), DataGet(bios_data, lo))
  ELSE Ps1_write_bios(Ps1_write_bios(dev_res, bios_data, lo, (lo + hi) \div 2),
                      bios_data, ((lo + hi) \div 2) + 1, hi)

\* bios is <<>> when none of the three BIOS paths exists and <<bios_data>>
\* when the first that exists holds bios_data; the outcome is one on the bus
Ps1_load_bios(p, bios) ==
  IF bios = <<>> \/ "BIOS" \notin DOMAIN p.memory.devices THEN Ok(p.memory)
  ELSE MemoryMapper_written(p.memory, "BIOS",
         Ps1_write_bios(Ok(p.memory.devices["BIOS"]), bios[1], 0, bios[1].len - 1))

\* res is the outcome of self.cpu.reset()
Ps1_load_rom_reset(p, rom_data, res) ==
  IF res.r # "ok" THEN CpuOutcome(p, res)
  ELSE Ok([p EXCEPT !.cpu = res.c, !.cycles = 0, !.rom = <<rom_data>>])

\* loaded is the outcome of self.load_bios()
Ps1_load_rom_bios(p, rom_data, loaded) ==
  IF loaded.r # "ok"
  THEN [c |-> [p EXCEPT !.memory = loaded.c], r |-> loaded.r, e |-> loaded.e]
  ELSE Ps1_load_rom_reset([p EXCEPT !.memory = loaded.c], rom_data, Cpu_reset(p.cpu))

\* header and region are the outcomes of the two parsers
Ps1_load_rom_parsed(p, rom_data, bios, header, region) ==
  IF header.r # "ok" THEN Fail(p, header.e)
  ELSE IF region.r # "ok" THEN Fail(p, region.e)
  ELSE Ps1_load_rom_bios(
         [p EXCEPT !.cart = [data |-> rom_data, header |-> header.v,
                             region |-> region.v]],
         rom_data, Ps1_load_bios(p, bios))

Ps1_load_rom(p, rom_data, bios) ==
  IF rom_data.len < 2048 THEN Fail(p, InvalidRom("ROM too small"))
  ELSE Ps1_load_rom_parsed(p, rom_data, bios, Ps1Header_parse(rom_data),
                           Ps1Region_from_byte(DataGet(rom_data, 14)))

(***************************************************************************)
(* The Platform trait (src/src/platforms/mod.rs), dispatched on the        *)
(* platform that PlatformFactory::create built                             *)
(***************************************************************************)
PlatformNames == {Str("atari2600"), Str("nes"), Caps("nintendo", {1}), Str("ps1")}

\* Snes::new (src/src/platforms/snes.rs), Ps2::new (ps2.rs) and Ps3::new
\* (ps3.rs): the CPU is created first and its error returned by `?`; of the
\* platform built after it the CPU, the memory and the counters are kept
Snes_new_memory ==
  MemoryMapper_add_device(MemoryMapper_new(<<\h0100, 0>>), "RAM",
                          RamDevice_new(131072, <<\h007E, 0>>, "RAM"))

Snes_new_built(created, memory) ==
  IF created.r # "ok" THEN FailV(created.e)
  ELSE IF memory.r # "ok" THEN FailV(memory.e)
  ELSE OkV([kind |-> "snes", cpu |-> created.c, memory |-> memory.c, rom |-> <<>>,
            cycles |-> 0])

Snes_new == Snes_new_built(CpuFactory_create(Str("65816")), Snes_new_memory)

Ps2_new_ram ==
  MemoryMapper_add_device(MemoryMapper_new(<<\h2000, 0>>), "RAM",
                          RamDevice_new(32 * 1024 * 1024, W0, "RAM"))

Ps2_new_memory ==
  IF Ps2_new_ram.r # "ok" THEN Ps2_new_ram
  ELSE MemoryMapper_add_device(Ps2_new_ram.c, "BIOS",
                               RamDevice_new(4 * 1024 * 1024, <<\h1FC0, 0>>, "BIOS"))

Ps2_new_built(created, memory) ==
  IF created.r # "ok" THEN FailV(created.e)
  ELSE IF memory.r # "ok" THEN FailV(memory.e)
  ELSE OkV([kind |-> "ps2", cpu |-> created.c, memory |-> memory.c, rom |-> <<>>,
            cycles |-> 0])

Ps2_new == Ps2_new_built(CpuFactory_create(Str("mips")), Ps2_new_memory)

Ps3_new_ram ==
  MemoryMapper_add_device(MemoryMapper_new(<<\hFFFF, \hFFFF>>), "RAM",
                          RamDevice_new(256 * 1024 * 1024, W0, "RAM"))

Ps3_new_memory ==
  IF Ps3_new_ram.r # "ok" THEN Ps3_new_ram
  ELSE MemoryMapper_add_device(Ps3_new_ram.c, "BIOS",
                               RamDevice_new(16 * 1024 * 1024, <<\h1FC0, 0>>, "BIOS"))

Ps3_new_built(created, memory) ==
  IF created.r # "ok" THEN FailV(created.e)
  ELSE IF memory.r # "ok" THEN FailV(memory.e)
  ELSE OkV([kind |-> "ps3", cpu |-> created.c, memory |-> memory.c, rom |-> <<>>,
            cycles |-> 0])

Ps3_new == Ps3_new_built(CpuFactory_create(Str("ppc")), Ps3_new_memory)

\* match platform_name.to_lowercase().as_str()
PlatformFactory_create(name) ==
  CASE ToLower(name).s \in {"atari2600", "atari"} -> OkV(Atari2600_new)
    [] ToLower(name).s \in {"nes", "nintendo"} -> OkV(Nes_new)
    [] ToLower(name).s \in {"snes", "super nintendo"} -> Snes_new
    [] ToLower(name).s \in {"ps1", "playstation"} -> OkV(Ps1_new)
    [] ToLower(name).s \in {"ps2", "playstation2"} -> Ps2_new
    [] ToLower(name).s \in {"ps3", "playstation3"} -> Ps3_new
    [] OTHER -> FailV(UnsupportedPlatform(name))

Platform_step(p) ==
  CASE p.kind = "atari2600" -> Atari2600_step(p)
    [] p.kind = "nes" -> Nes_step(p)
    [] p.kind = "ps1" -> Ps1_step(p)

Platform_reset(p) ==
  CASE p.kind = "atari2600" -> Atari2600_reset(p)
    [] p.kind = "nes" -> Nes_reset(p)
    [] p.kind = "ps1" -> Ps1_reset(p)

\* files is what the file system holds: the image at rom_path and, for the
\* PlayStation, the BIOS file if there is one
Platform_load_rom(p, files) ==
  CASE p.kind = "atari2600" -> Atari2600_load_rom(p, files.rom)
    [] p.kind = "nes" -> Nes_load_rom(p, files.rom)
    [] p.kind = "ps1" -> Ps1_load_rom(p, files.rom, files.bios)

(***************************************************************************)
(* SpecPlat: a platform and the calls of its owner.  A ROM image is a data *)
(* record with the bytes that are not 0.                                   *)
(***************************************************************************)
MaxPlatCalls == 2
MaxCycles == 65
MaxCyclesAtCall == 1

Image(size, bytes) == [len |-> size, mem |-> bytes]

\* a 4 KiB cartridge with its reset vector 0xF034 in the last four bytes,
\* a 2 KiB cartridge and a file that is too small
AtariImages ==
  {Image(4096, (0 :> \hA9) @@ (1 :> \h42) @@ (2048 :> \h4C) @@ (4092 :> \h34)
               @@ (4093 :> \hF0) @@ (4095 :> \h77)),
   Image(2048, (0 :> \hEA) @@ (2044 :> \h00 + 1) @@ (2045 :> \hF8)),
   Image(16, (0 :> \hEA))}

NesHeader(prg, chr) ==
  (0 :> \h4E) @@ (1 :> \h45) @@ (2 :> \h53) @@ (3 :> \h1A)
  @@ [i \in {k \in {4} : prg > 0} |-> prg] @@ [i \in {k \in {5} : chr > 0} |-> chr]

\* header only, with and without the magic; one 16 KiB PRG bank; a header
\* that announces a bank the file does not hold; a file that is too small
NesImages ==
  {Image(16, NesHeader(0, 0)),
   Image(16, (0 :> \h4E) @@ (1 :> \h45) @@ (2 :> \h53)),
   Image(16 + 16384, NesHeader(1, 0) @@ (16 :> \hA9) @@ (16 + 16383 :> \h80)),
   Image(16 + 16384 + 8192, NesHeader(1, 1) @@ (17 :> \h42) @@ (16 + 16384 :> \h3C)),
   Image(16, NesHeader(1, 0)),
   Image(8, (0 :> \h4E))}

\* a disc image of region NTSC, one of an unknown region, one too small
Ps1Images ==
  {Image(2048, (13 :> 1) @@ (14 :> \h41) @@ (15 :> 2)),
   Image(2048, (14 :> \h5A)),
   Image(16, (14 :> \h41))}

Ps1BiosFiles == {<<>>, <<Image(2, (0 :> \h3C) @@ (1 :> \h08))>>}

PlatFiles(kind) ==
  CASE kind = "atari2600" -> {[rom |-> d, bios |-> <<>>] : d \in AtariImages}
    [] kind = "nes" -> {[rom |-> d, bios |-> <<>>] : d \in NesImages}
    [] kind = "ps1" -> {[rom |-> d, bios |-> b] : d \in Ps1Images, b \in Ps1BiosFiles}

PlatLive == op.r # "panic"

\* a call other than step()
PlatCalled == PlatLive /\ calls < MaxPlatCalls /\ plat.cycles <= MaxCyclesAtCall

PlatCall(name, args, res, after) ==
  /\ plat' = after
  /\ op' = [name |-> name, args |-> args, r |-> res.r, e |-> res.e, v |-> <<>>,
            pre |-> plat]
  /\ UNCHANGED <<build, cpu, bus>>

\* the platform after step() returned res
PlatStepped(res) ==
  IF res.r = "ok" THEN [res.c EXCEPT !.n = @ + 1]
  ELSE [res.c EXCEPT !.after_reset = FALSE]

PlatStepCall(res) ==
  /\ PlatCall("step", <<>>, res, PlatStepped(res))
  /\ UNCHANGED calls

PlatStep ==
  /\ PlatLive
  /\ plat.cycles < MaxCycles
  /\ PlatStepCall(Platform_step([plat EXCEPT !.trace = <<>>]))

\* the platform after reset() returned res
PlatWasReset(res) ==
  IF res.r = "ok"
  THEN [res.c EXCEPT !.stepped = [part \in DOMAIN @ |-> 0], !.n = 0, !.trace = <<>>,
                     !.after_reset = TRUE]
  ELSE [res.c EXCEPT !.after_reset = FALSE]

PlatResetCall(res) ==
  /\ PlatCall("reset", <<>>, res, PlatWasReset(res))
  /\ calls' = calls + 1

PlatReset ==
  /\ PlatCalled
  /\ PlatResetCall(Platform_reset(plat))

PlatLoadRomCall(files, res) ==
  /\ PlatCall("load_rom", <<files.rom>>, res, [res.c EXCEPT !.after_reset = FALSE])
  /\ calls' = calls + 1

PlatLoadRom ==
  /\ PlatCalled
  /\ \E files \in PlatFiles(plat.kind) :
       PlatLoadRomCall(files, Platform_load_rom(plat, files))

InitPlat ==
  /\ build \in Builds
  /\ cpu = Idle
  /\ bus = Idle
  /\ op = NoOp
  /\ \E name \in PlatformNames : plat = PlatformFactory_create(name).v
  /\ calls = 0

NextPlat == PlatStep \/ PlatReset \/ PlatLoadRom

SpecPlat == InitPlat /\ [][NextPlat]_vars

(***************************************************************************)
(* The Atari cartridge (src/src/platforms/atari2600.rs, impl Cartridge)    *)
(* and SpecCart: an Atari 2600 loads an image, which builds its cartridge, *)
(* and the cartridge is written and read.                                  *)
(***************************************************************************)
\* self.data.get(rom_address).copied().unwrap_or(0)
Atari_Cartridge_read(cart, address) ==
  IF cart.mapper_type = "None"
  THEN IF address < cart.data.len THEN DataGet(cart.data, address) ELSE 0
  ELSE DataGet(cart.data, (address + cart.current_bank * 2048) % cart.data.len)

\* a variant of write whose window ends at 0x1FFE, against which
\* C25_BankSwitchSelectsBank is tested
Atari_Cartridge_write_short_window(cart, address, value) ==
  IF cart.mapper_type # "None" /\ address >= \h1FF8 /\ address <= \h1FFE
  THEN [cart EXCEPT !.current_bank = value % cart.bank_count]
  ELSE cart

Atari_Cartridge_write(cart, address, value) ==
  IF cart.mapper_type # "None" /\ address >= \h1FF8 /\ address <= \h1FFF
  THEN [cart EXCEPT !.current_bank = value % cart.bank_count]
  ELSE cart

MaxCartCalls == 3

\* a 16 KiB image whose banks differ in their first and last bytes, a 4 KiB
\* and a 2 KiB image
CartImages ==
  {Image(16384, [i \in {k * 2048 : k \in 0..7} |-> \h10 + (i \div 2048)]
                @@ [i \in {k * 2048 + 2047 : k \in 0..7} |-> \h20 + (i \div 2048)]),
   Image(4096, (0 :> \hA9) @@ (2048 :> \h4C) @@ (4095 :> \h77)),
   Image(2048, (0 :> \hEA) @@ (2047 :> \h55))}

CartWriteAddresses == {\h1000, \h1FF7, \h1FF8, \h1FFB, \h1FFF, \h2000}

CartValues == {0, 1, 2, 7, 8, \hFF}

CartReadAddresses == {0, 1, 2047, 2048}

CartLive == op.r # "panic" /\ calls < MaxCartCalls

\* the image is loaded into the console as it was constructed
CartLoadRom ==
  /\ CartLive
  /\ calls = 0
  /\ \E rom_data \in CartImages :
       /\ PlatCall("load_rom", <<rom_data>>, Atari2600_load_rom(plat, rom_data),
                   Atari2600_load_rom(plat, rom_data).c)
       /\ calls' = calls + 1

CartWrite ==
  /\ CartLive
  /\ \E address \in CartWriteAddresses, value \in CartValues :
       /\ PlatCall("Cartridge::write", <<address, value>>, Ok(plat),
                   [plat EXCEPT !.cart = Atari_Cartridge_write(plat.cart, address, value)])
       /\ calls' = calls + 1

CartRead ==
  /\ CartLive
  /\ \E address \in CartReadAddresses :
       /\ plat' = plat
       /\ op' = [name |-> "Cartridge::read", args |-> <<address>>, r |-> "ok", e |-> <<>>,
                 v |-> Atari_Cartridge_read(plat.cart, address), pre |-> plat]
       /\ calls' = calls + 1
       /\ UNCHANGED <<build, cpu, bus>>

InitCart ==
  /\ build \in Builds
  /\ cpu = Idle
  /\ bus = Idle
  /\ op = NoOp
  /\ plat = Atari2600_new
  /\ calls = 0

NextCart == CartLoadRom \/ CartWrite \/ CartRead

SpecCart == InitCart /\ [][NextCart]_vars

(***************************************************************************)
(* SpecRiot: the RIOT chip of an Atari 2600.  The platform's update_input  *)
(* is called with the buttons held down, and the chip's register interface *)
(* (RiotDevice::read and RiotDevice::write pass the low byte of the        *)
(* address to read_register and write_register) and its step are called.   *)
(***************************************************************************)
MaxRiotCalls == 3

RiotButtons == {"Up", "Right", "A", "Start"}

RiotRegisters == {\h7F, \h80, \h84, \h85}

RiotValues == {0, 5, \hF0}

RiotLive == op.r # "panic" /\ calls < MaxRiotCalls

RiotUpdateInput ==
  /\ RiotLive
  /\ \E pressed \in SUBSET RiotButtons :
       /\ PlatCall("update_input", <<pressed>>, Atari2600_update_input(plat, pressed),
                   Atari2600_update_input(plat, pressed).c)
       /\ calls' = calls + 1

RiotWriteRegister ==
  /\ RiotLive
  /\ \E address \in RiotRegisters, value \in RiotValues :
       /\ PlatCall("write_register", <<address, value>>, Ok(plat),
                   [plat EXCEPT !.ria = RiaChip_write_register(@, address, value)])
       /\ calls' = calls + 1

RiotReadRegister ==
  /\ RiotLive
  /\ \E address \in RiotRegisters :
       /\ plat' = plat
       /\ op' = [name |-> "read_register", args |-> <<address>>, r |-> "ok", e |-> <<>>,
                 v |-> RiaChip_read_register(plat.ria, address), pre |-> plat]
       /\ calls' = calls + 1
       /\ UNCHANGED <<build, cpu, bus>>

RiotStep ==
  /\ RiotLive
  /\ PlatCall("RiaChip::step", <<>>, Ok(plat), [plat EXCEPT !.ria = RiaChip_step(@)])
  /\ calls' = calls + 1

InitRiot ==
  /\ build \in Builds
  /\ cpu = Idle
  /\ bus = Idle
  /\ op = NoOp
  /\ plat = Atari2600_new
  /\ calls = 0

NextRiot == RiotUpdateInput \/ RiotWriteRegister \/ RiotReadRegister \/ RiotStep

SpecRiot == InitRiot /\ [][NextRiot]_vars

(***************************************************************************)
(* SpecNes: a NES console that is given iNES files whose flag bytes 6 and  *)
(* 7 vary, with and without a PRG bank behind the header, and is reset.    *)
(***************************************************************************)
MaxNesCalls == 2

NesFlags6 == {\h00, \h01, \h04, \h08, \h09, \hF1}

NesFlags7 == {\h00, \h10, \hF0}

NesFileSizes == {16, 16 + 16384}

NesFlaggedHeader(prg, flags6, flags7) ==
  NesHeader(prg, 0) @@ [i \in {k \in {6} : flags6 > 0} |-> flags6]
  @@ [i \in {k \in {7} : flags7 > 0} |-> flags7]

NesLive == op.r # "panic" /\ calls < MaxNesCalls

NesLoadRom ==
  /\ NesLive
  /\ \E size \in NesFileSizes, prg \in {0, 1}, flags6 \in NesFlags6, flags7 \in NesFlags7 :
       /\ PlatCall("load_rom", <<Image(size, NesFlaggedHeader(prg, flags6, flags7))>>,
                   Nes_load_rom(plat, Image(size, NesFlaggedHeader(prg, flags6, flags7))),
                   Nes_load_rom(plat, Image(size, NesFlaggedHeader(prg, flags6, flags7))).c)
       /\ calls' = calls + 1

NesReset ==
  /\ NesLive
  /\ PlatCall("reset", <<>>, Nes_reset(plat), Nes_reset(plat).c)
  /\ calls' = calls + 1

InitNes ==
  /\ build \in Builds
  /\ cpu = Idle
  /\ bus = Idle
  /\ op = NoOp
  /\ plat = Nes_new
  /\ calls = 0

NextNes == NesLoadRom \/ NesReset

SpecNes == InitNes /\ [][NextNes]_vars

(***************************************************************************)
(* SpecFrames: a console without a cartridge whose step() is called again  *)
(* and again, through whole frames of its video chip and up to the step    *)
(* at which the u16 frame counter of the NES APU has counted 0xFFFF.       *)
(***************************************************************************)
MaxFrameSteps == 65536

FrameConsoles == {Str("atari2600"), Str("nes")}

FramesStep ==
  /\ PlatLive
  /\ plat.cycles < MaxFrameSteps
  /\ PlatStepCall(Platform_step([plat EXCEPT !.trace = <<>>]))

InitFrames ==
  /\ build \in Builds
  /\ cpu = Idle
  /\ bus = Idle
  /\ op = NoOp
  /\ \E name \in FrameConsoles : plat = PlatformFactory_create(name).v
  /\ calls = 0

NextFrames == FramesStep

SpecFrames == InitFrames /\ [][NextFrames]_vars

(***************************************************************************)
(* SpecFactory: CpuFactory::create and PlatformFactory::create called with *)
(* the names they match, in either letter case, and with names they do     *)
(* not.  The created object is the value of the call.                      *)
(***************************************************************************)
MaxFactoryCalls == 2

FactoryPlatformNames ==
  {Str("atari2600"), Str("atari"), Str("nes"), Str("nintendo"), Str("snes"),
   Str("super nintendo"), Str("ps1"), Str("playstation"), Str("ps2"),
   Str("playstation2"), Str("ps3"), Str("playstation3"), Caps("nes", {1, 2, 3}),
   Str("gameboy"), Str("n64"), Str("")}

FactoryCpuNames ==
  {Str("6502"), Str("mos6502"), Str("68000"), Str("m68k"), Str("mips"), Str("x86"),
   Str("i386"), Str("arm"), Caps("arm", {1, 2, 3}), Str("65816"), Str("ppc"),
   Str("z80"), Str("")}

FactoryLive == calls < MaxFactoryCalls

FactoryCall(name, args, rd) ==
  /\ op' = [name |-> name, args |-> args, r |-> rd.r, e |-> rd.e, v |-> rd.v, pre |-> <<>>]
  /\ calls' = calls + 1
  /\ UNCHANGED <<build, cpu, bus, plat>>

FactoryCreatePlatform ==
  /\ FactoryLive
  /\ \E name \in FactoryPlatformNames :
       FactoryCall("PlatformFactory::create", <<name>>, PlatformFactory_create(name))

FactoryCreateCpu ==
  /\ FactoryLive
  /\ \E cpu_type \in FactoryCpuNames :
       FactoryCall("CpuFactory::create", <<cpu_type>>,
                   [r |-> CpuFactory_create(cpu_type).r, e |-> CpuFactory_create(cpu_type).e,
                    v |-> CpuFactory_create(cpu_type).c])

InitFactory ==
  /\ build \in Builds
  /\ cpu = Idle
  /\ op = NoOp
  /\ bus = Idle
  /\ plat = Idle
  /\ calls = 0

NextFactory == FactoryCreatePlatform \/ FactoryCreateCpu

SpecFactory == InitFactory /\ [][NextFactory]_vars

(***************************************************************************)
(* Platform detection (src/src/core/mod.rs, src/src/gui/mod.rs).  A ROM    *)
(* file is a byte vector; an extension is what Path::extension returns,    *)
(* the empty name standing for a path without one.                         *)
(***************************************************************************)
\* &rom_data[0..4] == b"NES\x1a"
HasNesMagic(rom_data) ==
  /\ DataGet(rom_data, 0) = \h4E /\ DataGet(rom_data, 1) = \h45
  /\ DataGet(rom_data, 2) = \h53 /\ DataGet(rom_data, 3) = \h1A

\* &rom_data[0x800..0x808] == b"PS-X EXE"
HasPsxMagic(rom_data) ==
  /\ DataGet(rom_data, \h800) = \h50 /\ DataGet(rom_data, \h801) = \h53
  /\ DataGet(rom_data, \h802) = \h2D /\ DataGet(rom_data, \h803) = \h58
  /\ DataGet(rom_data, \h804) = \h20 /\ DataGet(rom_data, \h805) = \h45
  /\ DataGet(rom_data, \h806) = \h58 /\ DataGet(rom_data, \h807) = \h45

\* title.iter().any(|&b| b != 0) of the 21 bytes from header_offset on
SnesTitleNonZero(rom_data, header_offset) ==
  \E i \in DOMAIN rom_data.mem :
    i >= header_offset /\ i < header_offset + 21 /\ rom_data.mem[i] # 0

Emulator_detect_by_extension(rom_data, extension) ==
  CASE extension = "a26" -> OkV("atari2600")
    [] extension = "nes" -> OkV("nes")
    [] extension \in {"smc", "sfc"} -> OkV("snes")
    [] extension \in {"iso", "img"} -> OkV("ps1")
    [] extension = "bin" ->
         IF rom_data.len <= 1048576 THEN OkV("atari2600") ELSE OkV("ps1")
    [] OTHER -> FailV(UnsupportedPlatform("Cannot detect platform for file"))

\* the header check of Emulator::detect_platform; the slice of the title
\* ends at header_offset + 21, which a file may be too short for
Emulator_detect_snes(rom_data, extension, header_offset) ==
  IF header_offset + 21 > rom_data.len
  THEN PanicV("range end index out of range for slice")
  ELSE IF SnesTitleNonZero(rom_data, header_offset) THEN OkV("snes")
  ELSE Emulator_detect_by_extension(rom_data, extension)

\* the file at rom_path is read whole; extension is the lowercased extension
\* of the path
Emulator_detect_platform(rom_data, extension) ==
  IF rom_data.len >= 16 /\ HasNesMagic(rom_data) THEN OkV("nes")
  ELSE IF rom_data.len >= \h7FC0
  THEN Emulator_detect_snes(rom_data, ToLower(extension).s,
                            IF rom_data.len >= \h8000 THEN \h7FC0 ELSE \h7FB0)
  ELSE Emulator_detect_by_extension(rom_data, ToLower(extension).s)

\* the checks of GuiState::detect_platform that follow the NES one
GuiState_detect_after_nes(rom_data) ==
  IF rom_data.len >= \h8000 /\ (DataGet(rom_data, \h7FC0 + \h15) \div 16) = 2
  THEN OkV("snes")
  ELSE IF rom_data.len >= \h800 /\ rom_data.len < \h808
  THEN PanicV("range end index out of range for slice")
  ELSE IF rom_data.len >= \h800 /\ HasPsxMagic(rom_data) THEN OkV("ps1")
  ELSE OkV("atari2600")

GuiState_detect_platform(rom_data) ==
  IF rom_data.len < 16 THEN FailV(InvalidRom("ROM too small"))
  ELSE IF HasNesMagic(rom_data) THEN OkV("nes")
  ELSE GuiState_detect_after_nes(rom_data)

(***************************************************************************)
(* SpecDetect: the two detectors applied to files with and without the     *)
(* NES, SNES and PlayStation marks, of sizes around the limits the         *)
(* detectors test, under the extensions they know and some they do not.    *)
(***************************************************************************)
MaxDetectCalls == 1

NesMark == (0 :> \h4E) @@ (1 :> \h45) @@ (2 :> \h53) @@ (3 :> \h1A)

PsxMark ==
  (\h800 :> \h50) @@ (\h801 :> \h53) @@ (\h802 :> \h2D) @@ (\h803 :> \h58)
  @@ (\h804 :> \h20) @@ (\h805 :> \h45) @@ (\h806 :> \h58) @@ (\h807 :> \h45)

DetectFiles ==
  {Image(0, EmptyMem),
   Image(8, NesMark),
   Image(16, NesMark),
   Image(20480, EmptyMem),
   Image(\h7FC0, EmptyMem),
   Image(\h7FC5, (\h7FB0 :> \h53)),
   Image(\h8000, (\h7FC0 :> \h53) @@ (\h7FD5 :> \h20)),
   Image(\h8000, EmptyMem),
   Image(\h8000, NesMark @@ (\h7FC0 :> \h53)),
   Image(\h8000, PsxMark @@ (\h7FC0 :> \h53)),
   Image(\h804, EmptyMem),
   Image(\h808, PsxMark),
   Image(1048576, EmptyMem),
   Image(1048577, EmptyMem),
   Image(1048577, PsxMark)}

DetectExtensions ==
  {Str("a26"), Str("nes"), Str("smc"), Str("sfc"), Str("iso"), Str("img"),
   Str("bin"), Caps("bin", {1, 2, 3}), Str("rom"), Str("")}

DetectLive == calls < MaxDetectCalls

DetectCall(name, args, rd) ==
  /\ op' = [name |-> name, args |-> args, r |-> rd.r, e |-> rd.e, v |-> rd.v, pre |-> <<>>]
  /\ calls' = calls + 1
  /\ UNCHANGED <<build, cpu, bus, plat>>

DetectEmulator ==
  /\ DetectLive
  /\ \E rom_data \in DetectFiles, extension \in DetectExtensions :
       DetectCall("Emulator::detect_platform", <<rom_data, extension>>,
                  Emulator_detect_platform(rom_data, extension))

DetectGui ==
  /\ DetectLive
  /\ \E rom_data \in DetectFiles :
       DetectCall("GuiState::detect_platform", <<rom_data>>,
                  GuiState_detect_platform(rom_data))

InitDetect ==
  /\ build \in Builds
  /\ cpu = Idle
  /\ op = NoOp
  /\ bus = Idle
  /\ plat = Idle
  /\ calls = 0

NextDetect == DetectEmulator \/ DetectGui

SpecDetect == InitDetect /\ [][NextDetect]_vars

(***************************************************************************)
(* Properties of the CPU implementations                                   *)
(***************************************************************************)
\* C1: on every CPU implementation, step() on a halted CPU returns Ok and
\* leaves every field of the CPU as it was.
C1_HaltedStepChangesNothing ==
  (op.name = "step" /\ op.pre.halted) => (op.r = "ok" /\ cpu = op.pre)

\* a step has been taken on a CPU that was already halted
C1_Witness == op.name = "step" /\ op.pre.halted /\ cpu.halted

\* C6: on the 6502, read_memory(a) returns 0 for every a in 0x0000..0x007F,
\* whatever the backing array holds there, in every reachable state.
C6_TiaRangeReadsZero ==
  cpu.arch = "6502" =>
    /\ \A a \in 0..\h007F : Mos6502_read_memory(cpu, <<0, a>>) = OkV(0)
    /\ (op.name = "read_memory" /\ Hi(op.args[1]) = 0 /\ Lo(op.args[1]) <= \h007F)
         => (op.r = "ok" /\ op.v = 0)

\* 0x0010 has been read while the backing array holds a non-zero byte there
\* (stored through the stack page, 0x0110)
C6_Witness ==
  /\ cpu.arch = "6502"
  /\ op.name = "read_memory"
  /\ op.args[1] = <<0, \h0010>>
  /\ MemGet(cpu.memory, \h0010) # 0

\* the value the architecture's own multi-byte read finds at its reset vector
C2_VectorValue(c) ==
  CASE c.arch = "6502" -> WInt(Mos6502_read_memory_16(c, \hFFFC).v)
    [] c.arch = "68000" -> M68k_read_memory_32(c, W0).v
    [] c.arch = "mips" -> Mips_read_memory_32(c, <<\hBFC0, 0>>).v
    [] c.arch = "x86" -> X86_read_memory_32(c, <<\hFFFF, \hFFF0>>).v
    [] c.arch = "arm" -> Arm_read_memory_32(c, W0).v

\* C2: on every architecture (6502, 68000, MIPS, x86, ARM) reset() returns
\* success and afterwards pc() is the value that was stored at the reset
\* vector of the architecture immediately before the call.
C2_ResetLoadsVector ==
  (op.name = "reset" /\ op.pre.arch # "generic")
    => (op.r = "ok" /\ Cpu_pc(cpu) = C2_VectorValue(op.pre))

\* C3: on every architecture, for every register name the architecture
\* documents, in any letter case, and every 32-bit value v, set_register(name, v)
\* followed immediately by get_register(name) returns v.
C3_RegisterRoundTrip ==
  (op.name = "set_register" /\ op.pre.arch # "generic" /\ op.args[1] # Str("q"))
    => (op.r = "ok" /\ Cpu_get_register(cpu, op.args[1]) = OkV(op.args[2]))

(***************************************************************************)
(* Properties of the memory bus                                            *)
(***************************************************************************)
\* the range [start, end] the device reports shares an address with the region
SharesAddress(region, start, end) ==
  \E lo \in {start, region.start}, hi \in {end, region.end} :
    /\ WLe(start, lo) /\ WLe(region.start, lo)
    /\ WLe(hi, end) /\ WLe(hi, region.end)
    /\ WLe(lo, hi)

\* the device handed to add_device reports a range that shares an address with
\* a region of the bus m
RangeTaken(m, device) ==
  /\ MemoryDevice_range(device).r = "ok"
  /\ \E i \in 1..Len(m.regions) :
       SharesAddress(m.regions[i], MemoryDevice_range(device).v[1],
                     MemoryDevice_range(device).v[2])

\* some region of the bus m contains the address
Mapped(m, address) ==
  \E i \in 1..Len(m.regions) :
    WLe(m.regions[i].start, address) /\ WLe(address, m.regions[i].end)

\* C4: add_device with a device whose [start, end] range shares at least one
\* address with an already registered region fails, and the region list and
\* the device table of the bus are exactly as they were before the call.
C4_OverlappingAddFails ==
  (op.name = "add_device" /\ RangeTaken(op.pre, op.args[2]))
    => (op.r = "err" /\ bus.regions = op.pre.regions /\ bus.devices = op.pre.devices)

\* a device [2, 4] offered to a bus that holds [0, 2]: one shared address
C4_Witness ==
  /\ op.name = "add_device"
  /\ RangeTaken(op.pre, op.args[2])
  /\ op.args[2].start_address = <<0, 2>>
  /\ \E i \in 1..Len(op.pre.regions) : op.pre.regions[i].end = <<0, 2>>
  /\ op.r = "err"

\* C5: read(addr) and write(addr, v) fail with MemoryAccessViolation(addr)
\* whenever no registered region contains addr: the read returns no byte and
\* the write changes no device.
C5_UnmappedFailsClosed ==
  /\ (op.name \in {"read", "write"} /\ ~Mapped(op.pre, op.args[1]))
       => (op.r = "err" /\ op.e = MemoryAccessViolation(op.args[1]) /\ bus = op.pre)
  /\ bus # Idle =>
       \A address \in BusAddresses :
         ~Mapped(bus, address) =>
           /\ MemoryMapper_read(bus, address) = FailV(MemoryAccessViolation(address))
           /\ MemoryMapper_write(bus, address, \hAB)
                = Fail(bus, MemoryAccessViolation(address))

\* a read of an address inside the address space, in a gap behind a device
C5_Witness ==
  /\ op.name = "read"
  /\ ~Mapped(op.pre, op.args[1])
  /\ WLt(op.args[1], op.pre.address_space_size)
  /\ Len(op.pre.regions) > 0
  /\ op.r = "err"

(***************************************************************************)
(* Properties of the platforms                                             *)
(***************************************************************************)
\* C7: after Atari2600::load_rom succeeded on a 4 KiB image d, the Cpu's
\* read_memory(0x1000 + i) and read_memory(0xF000 + i) both return d[i], for
\* every i in 0..4095.
C7_RomWindowShowsImage ==
  (op.name = "load_rom" /\ op.r = "ok" /\ plat.kind = "atari2600"
     /\ op.args[1].len = 4096)
    => \A i \in 0..4095 :
         /\ Cpu_read_memory(plat.cpu, WInt(\h1000 + i)) = OkV(DataGet(op.args[1], i))
         /\ Cpu_read_memory(plat.cpu, WInt(\hF000 + i)) = OkV(DataGet(op.args[1], i))

\* C8: after reset() and N step() calls that returned Ok, the cycle counter
\* is N, the Cpu was stepped N times, the NES PPU 3N times and the NES APU N
\* times, the Atari 2600 TIA 3N times and the Atari 2600 RIOT floor(N/64)
\* times.
C8_ChipsSteppedByRatio ==
  plat.after_reset =>
    /\ plat.cycles = plat.n
    /\ plat.stepped["cpu"] = plat.n
    /\ plat.kind = "nes" =>
         plat.stepped["ppu"] = 3 * plat.n /\ plat.stepped["apu"] = plat.n
    /\ plat.kind = "atari2600" =>
         plat.stepped["tia"] = 3 * plat.n /\ plat.stepped["riot"] = plat.n \div 64

\* the place of a part in the order of one step()
PartRank(part) ==
  CASE part = "cpu" -> 0
    [] part \in {"ppu", "tia", "gpu"} -> 1
    [] part \in {"apu", "riot", "spu"} -> 2
    [] part = "cdrom" -> 3

\* the parts a step() that returns Ok steps, p being the platform it leaves
PartsOfStep(p) ==
  CASE p.kind = "nes" -> <<"cpu", "ppu", "ppu", "ppu", "apu">>
    [] p.kind = "atari2600" ->
         IF p.cycles % 64 = 0 THEN <<"cpu", "tia", "riot">> ELSE <<"cpu", "tia">>
    [] p.kind = "ps1" -> <<"cpu", "gpu", "spu", "cdrom">>

\* C9: within one Platform::step() the Cpu is stepped before any chip, and
\* the chips are stepped in the same order on every call: PPU then APU on the
\* NES, TIA then RIOT on the Atari 2600, GPU, SPU, CD-ROM on the PlayStation.
C9_CpuThenChipsInOrder ==
  op.name = "step" =>
    /\ plat.trace # <<>>
    /\ \A i \in 1..Len(plat.trace) : plat.trace[i] = "cpu" <=> i = 1
    /\ \A i \in 1..Len(plat.trace) : \A j \in i..Len(plat.trace) :
         PartRank(plat.trace[i]) <= PartRank(plat.trace[j])
    /\ op.r = "ok" => plat.trace = PartsOfStep(plat)

\* the 64th step() of an Atari 2600 stepped its Cpu, its TIA and its RIOT
C9_Witness ==
  /\ op.name = "step" /\ op.r = "ok"
  /\ plat.kind = "atari2600" /\ plat.cycles = 64
  /\ plat.trace = <<"cpu", "tia", "riot">>

\* an image load_rom accepts on a platform that holds no ROM yet
ValidImage(kind, rom_data) ==
  CASE kind = "atari2600" -> rom_data.len >= 2048 /\ rom_data.len <= 32768
    [] kind = "nes" ->
         /\ rom_data.len >= 16 /\ Nes_has_magic(rom_data)
         /\ 16 + DataGet(rom_data, 4) * 16384 + DataGet(rom_data, 5) * 8192
              <= rom_data.len
    [] OTHER -> FALSE

\* the name of the ROM device load_rom registers
RomDeviceName(kind) == IF kind = "nes" THEN "PRG_ROM" ELSE "ROM"

\* the bytes load_rom hands to the ROM device
RomDeviceData(p, rom_data) == IF p.kind = "nes" THEN p.cart.prg_rom ELSE rom_data

RegionsNamed(m, name) == {i \in 1..Len(m.regions) : m.regions[i].name = name}

\* C10: a second load_rom with a valid image succeeds, and afterwards the
\* cartridge and the ROM device registered on the bus are those of the second
\* image only.
C10_SecondLoadReplaces ==
  (op.name = "load_rom" /\ op.pre.rom # <<>> /\ ValidImage(op.pre.kind, op.args[1]))
    => /\ op.r = "ok"
       /\ plat.cart.data = op.args[1]
       /\ RomDeviceName(plat.kind) \in DOMAIN plat.memory.devices
       /\ plat.memory.devices[RomDeviceName(plat.kind)].data
            = RomDeviceData(plat, op.args[1])
       /\ Cardinality(RegionsNamed(plat.memory, RomDeviceName(plat.kind))) = 1

(***************************************************************************)
(* Properties of the interpreters: opcodes, flags, reset, register names   *)
(***************************************************************************)
\* the opcodes execute_instruction has an arm for
ImplementedOpcode(arch, o) ==
  CASE arch = "6502" -> o \in {\hA9, \hA5, \hAD, \h85, \h8D, \h4C, \hEA, \h00}
    [] arch = "68000" ->
         \/ o \in {\h4E75, \h4E71, \h4E73}
         \/ \E top \in {\h2, \h3, \hD, \h9} : o \div 4096 = top
         \/ (o >= \h4E80 /\ o <= \h4EFF)
    [] arch = "mips" ->
         o \in {\h00, \h02, \h03, \h04, \h05, \h06, \h07, \h08, \h09, \h0A, \h0C, \h0D,
                \h0E, \h0F, \h20, \h21, \h23, \h24, \h25, \h28, \h29, \h2B}
    [] arch = "x86" ->
         o \in {\h88, \h89, \h8A, \h8B, \h00, \h01, \h28, \h29, \hE9, \hEB, \hE8, \hC3, \h90}
    [] arch = "arm" ->
         o \in (0..15) \cup {\h40, \h41, \h42, \h44, \h45, \h46, \h50, \h51}
    [] OTHER -> TRUE

\* C11: on each of the five interpreters, step() on an opcode the interpreter
\* does not implement returns a CpuError that carries the opcode and, after
\* it, the location of the opcode.
C11_UnimplementedOpcodeFails ==
  (op.name = "step" /\ op.r # "panic" /\ ~op.pre.halted
     /\ ~ImplementedOpcode(cpu.arch, cpu.opcode))
    => /\ op.r = "err"
       /\ op.e[1] = "CpuError"
       /\ op.e[3] = cpu.opcode
       /\ Len(op.e) > 3

\* C12: on every architecture and in every reachable state,
\* set_flags(get_flags()) returns Ok and leaves every field of the CPU as it
\* was.
C12_SetFlagsOfGetFlagsIsNoOp ==
  /\ cpu = Idle \/ Cpu_set_flags(cpu, Cpu_get_flags(cpu)) = Ok(cpu)
  /\ (op.name = "set_flags" /\ op.args[1] = Cpu_get_flags(op.pre))
       => (op.r = "ok" /\ cpu = op.pre)

\* set_flags(get_flags()) was called on a 68000 whose status register holds
\* flag bits and bits that are no flag
C12_Witness ==
  /\ op.name = "set_flags" /\ op.args[1] = Cpu_get_flags(op.pre)
  /\ op.pre.arch = "68000" /\ op.pre.sr = \h1234
  /\ op.args[1].overflow /\ op.args[1].extend

\* the flags an architecture does not define: "Not used in" of get_flags, and
\* on the 6502 the three that are no bit of its status register
UndefinedFlags(arch) ==
  CASE arch = "6502" -> {"parity", "auxiliary_carry", "extend"}
    [] arch = "68000" -> {"decimal", "break_command", "parity", "auxiliary_carry"}
    [] arch = "mips" -> FlagNames
    [] arch = "x86" -> {"extend", "decimal", "break_command"}
    [] arch = "arm" -> {"extend", "decimal", "break_command", "parity", "auxiliary_carry"}
    [] OTHER -> {}

\* C13: on every architecture, each flag the architecture does not define
\* reads as false from get_flags() in every reachable state, also right after
\* set_flags(f) with that flag true.
C13_UndefinedFlagsReadFalse ==
  cpu # Idle => \A f \in UndefinedFlags(cpu.arch) : ~Cpu_get_flags(cpu)[f]

\* C14: after reset() on the 68000, all data and address registers are 0, the
\* status register is 0x2000, and pc() is the big-endian dword at address 0
\* of the memory as it was before the call:
\* (mem[0] << 24) | (mem[1] << 16) | (mem[2] << 8) | mem[3].
C14_M68kResetState ==
  (op.name = "reset" /\ op.pre.arch = "68000")
    => /\ op.r = "ok"
       /\ \A i \in 0..7 : cpu.d[i] = W0 /\ cpu.a[i] = W0
       /\ cpu.sr = \h2000
       /\ Cpu_pc(cpu) = <<MemGet(op.pre.memory, <<0, 0>>) * 256
                            + MemGet(op.pre.memory, <<0, 1>>),
                          MemGet(op.pre.memory, <<0, 2>>) * 256
                            + MemGet(op.pre.memory, <<0, 3>>)>>

\* C15: after reset() on the 6502, A, X and Y are 0, the stack pointer is
\* 0xFF, every flag is false except interrupt-disable, which is true, and
\* pc() is mem[0xFFFC] | (mem[0xFFFD] << 8).
C15_Mos6502ResetState ==
  (op.name = "reset" /\ op.pre.arch = "6502")
    => /\ op.r = "ok"
       /\ cpu.a = 0 /\ cpu.x = 0 /\ cpu.y = 0
       /\ cpu.sp = \hFF
       /\ Cpu_get_flags(cpu) = [CpuFlagsDefault EXCEPT !.interrupt_disable = TRUE]
       /\ Cpu_pc(cpu) = WInt(Cpu_read_memory(op.pre, <<0, \hFFFC>>).v
                             + 256 * Cpu_read_memory(op.pre, <<0, \hFFFD>>).v)

\* reset() was called on a 6502 with a register or a flag set by the caller
C15_Witness ==
  /\ op.name = "reset" /\ op.pre.arch = "6502" /\ op.r = "ok"
  /\ \/ op.pre.a = \h34
     \/ op.pre.sp = \h34
     \/ op.pre.flags.carry /\ ~op.pre.flags.interrupt_disable

\* C16: on every CPU implementation, the generic one included,
\* get_register(name) and set_register(name, v) with a name the architecture
\* does not define fail with CpuError and leave the registers as they were.
C16_UnknownRegisterFails ==
  (op.name \in {"get_register", "set_register"} /\ op.args[1] = Str("q"))
    => /\ op.r = "err"
       /\ op.e[1] = "CpuError"
       /\ cpu = op.pre

(***************************************************************************)
(* Properties of the memory bus: permissions, byte order, regions          *)
(***************************************************************************)
\* region i is the first region of m that contains address
FirstRegionAt(m, address, i) ==
  /\ MemoryMapper_contains(m.regions[i], address)
  /\ \A j \in 1..(i - 1) : ~MemoryMapper_contains(m.regions[j], address)

\* address lies in a region that takes no write: its access is ReadOnly, or
\* the device bound to it is a RomDevice
ReadOnlyAt(m, address) ==
  \E i \in 1..Len(m.regions) :
    /\ FirstRegionAt(m, address, i)
    /\ \/ m.regions[i].access = "ReadOnly"
       \/ /\ m.regions[i].device \in DOMAIN m.devices
          /\ m.devices[m.regions[i].device].kind = "rom"

\* address lies in a region that gives no read
UnreadableAt(m, address) ==
  \E i \in 1..Len(m.regions) :
    /\ FirstRegionAt(m, address, i)
    /\ m.regions[i].access \in {"WriteOnly", "NoAccess"}

C18_LittleEndianWords ==
  /\ (op.name = "write16" /\ op.r = "ok")
       => /\ MemoryMapper_read(bus, op.args[1]) = OkV(op.args[2] % 256)
          /\ MemoryMapper_read(bus, WAdd(op.args[1], <<0, 1>>))
               = OkV(op.args[2] \div 256)
          /\ MemoryMapper_read16(bus, op.args[1]) = OkV(op.args[2])
  /\ (op.name = "write32" /\ op.r = "ok")
       => /\ \A k \in 0..3 :
               MemoryMapper_read(bus, WAdd(op.args[1], <<0, k>>))
                 = OkV(WByte(op.args[2], k))
          /\ MemoryMapper_read32(bus, op.args[1]) = OkV(op.args[2])

\* write32(2, 0x1234ABCD) returned Ok on a bus with four bytes of RAM at 2
C18_Witness ==
  /\ op.name = "write32" /\ op.r = "ok"
  /\ op.args = <<(<<0, 2>>), (<<\h1234, \hABCD>>)>>
  /\ MemoryMapper_read(bus, <<0, 2>>) = OkV(\hCD)
  /\ MemoryMapper_read(bus, <<0, 5>>) = OkV(\h12)

\* C19: in every state reached by add_device and remove_device calls, no two
\* regions registered on one MemoryMapper share an address.
C19_RegionsNeverOverlap ==
  bus # Idle =>
    \A i \in 1..Len(bus.regions) : \A j \in 1..Len(bus.regions) :
      i # j => ~SharesAddress(bus.regions[i], bus.regions[j].start, bus.regions[j].end)

\* two devices sit side by side on the bus, the second added after a call
\* that added or removed another
C19_Witness ==
  /\ op.name = "add_device" /\ op.r = "ok"
  /\ Len(bus.regions) = 2
  /\ bus.regions[1].end = <<0, 3>> /\ bus.regions[2].start = <<0, 4>>
  /\ calls = MaxBusCalls

(***************************************************************************)
(* Properties of the bank controller                                       *)
(***************************************************************************)
\* C20: MemoryBankController::switch_bank(n) with n >= total_banks fails and
\* leaves current_bank and the contents of every bank unchanged.
C20_BadSwitchChangesNothing ==
  (op.name = "switch_bank" /\ op.args[1] >= op.pre.total_banks) =>
    /\ op.r = "err"
    /\ bus.current_bank = op.pre.current_bank
    /\ bus.banks = op.pre.banks

\* a switch to bank number total_banks fails on a controller whose current
\* bank is bank 1 and holds a written byte
C20_Witness ==
  /\ op.name = "switch_bank" /\ op.args[1] = op.pre.total_banks /\ op.r = "err"
  /\ op.pre.current_bank = 1
  /\ op.pre.banks[2][1] = \hAB

\* Properties of two consecutive calls are written [][A]_calls: every call of
\* every specification adds one to calls, so the steps that leave calls as it
\* is are the stuttering steps.

\* the controller m with byte a of its selected bank replaced by v
BankWithByte(m, a, v) ==
  [m EXCEPT !.banks =
     [b \in 1..Len(m.banks) |->
        [i \in 1..Len(m.banks[b]) |->
           IF b = m.current_bank + 1 /\ i = a + 1 THEN v ELSE m.banks[b][i]]]]

\* C21: once switch_bank(n) has succeeded, n is the selected bank; a
\* successful write(a, v) then changes byte a of bank n and nothing else, a
\* successful read(a) returns byte a of bank n and changes nothing, and a
\* read(a) that follows a write(a, v) returns v.
C21_AccessesSelectedBankOnly ==
  [][/\ (op'.name = "switch_bank" /\ op'.r = "ok") =>
          bus' = [bus EXCEPT !.current_bank = op'.args[1]]
     /\ (op'.name = "write" /\ op'.r = "ok") =>
          /\ WLt(op'.args[1], WInt(bus.bank_size))
          /\ bus' = BankWithByte(bus, Lo(op'.args[1]), op'.args[2])
     /\ (op'.name = "read" /\ op'.r = "ok") =>
          /\ WLt(op'.args[1], WInt(bus.bank_size))
          /\ op'.v = bus.banks[bus.current_bank + 1][Lo(op'.args[1]) + 1]
          /\ bus' = bus
     /\ (op.name = "write" /\ op.r = "ok" /\ op'.name = "read"
           /\ op'.args[1] = op.args[1]) =>
          op'.r = "ok" /\ op'.v = op.args[2]]_calls

\* the byte written into bank 1 after switch_bank(1) is read back, and bank 0
\* still holds what it was constructed with
C21_Witness ==
  /\ op.name = "read" /\ op.r = "ok" /\ op.v = \hAB
  /\ bus.current_bank = 1
  /\ \A i \in 1..bus.bank_size : bus.banks[1][i] = 0
  /\ calls = MaxBankCalls

(***************************************************************************)
(* Properties of the 6502 memory map and of single instructions            *)
(***************************************************************************)
\* the address of 0x0080..0x00FF that a stack address stands for when the 256
\* bytes of the stack page mirror the 128 bytes of RAM
StackMirror(s) == \h0080 + (s % \h0080)

\* C22: on the 6502, in every reachable state, every address s of the stack
\* page 0x0100..0x01FF reads the byte that the RAM address it mirrors reads:
\* what is written through either is read through the other, and the stack
\* page stores nothing that 0x0080..0x00FF does not show.
C22_StackMirrorsRam ==
  cpu.arch = "6502" =>
    \A s \in \h0100..\h01FF :
      Mos6502_read_memory(cpu, <<0, s>>) = Mos6502_read_memory(cpu, <<0, StackMirror(s)>>)

\* C23: on a 6502 as constructed, once the bytes 0xA9 0x42 have been placed
\* with write_memory at the address held in the program counter, one step()
\* leaves 0x42 in the accumulator and the zero and negative flags false.
C23_LdaImmediateAfterNew ==
  [][(/\ op.name = "place" /\ op.args[1] = <<\hA9, \h42>>
      /\ op.pre = Mos6502_new
      /\ op'.name = "step")
       => (cpu'.a = \h42 /\ ~cpu'.flags.zero /\ ~cpu'.flags.negative)]_calls

\* the instruction word that a MIPS step() fetches at the program counter
MipsWordAtPc(c) ==
  FromLeBytes(MemGet(c.memory, c.pc), MemGet(c.memory, WAdd(c.pc, <<0, 1>>)),
              MemGet(c.memory, WAdd(c.pc, <<0, 2>>)), MemGet(c.memory, WAdd(c.pc, <<0, 3>>)))

\* the 16-bit immediate n as the 32-bit two's complement value it stands for
SignExtended(n) == IF n >= \h8000 THEN <<\hFFFF, n>> ELSE <<0, n>>

\* C26: on the MIPS interpreter, a step() whose instruction word is
\* ADDI rt, rs, imm (bits 31..26 = 8) sets register rt to
\* (rs + sign_extend(imm)) mod 2^32, changes no other general register and
\* advances pc by 4; with register 1 = 5 on a CPU as constructed and
\* ADDI $2, $1, 10 placed at pc, register 2 is 15 afterwards.
C26_AddiSetsRt ==
  [][/\ (/\ op'.name = "step" /\ cpu.arch = "mips" /\ ~cpu.halted
         /\ Hi(MipsWordAtPc(cpu)) \div 1024 = 8)
          => /\ op'.r = "ok"
             /\ cpu'.registers =
                  [cpu.registers EXCEPT ![Hi(MipsWordAtPc(cpu)) % 32] =
                     WAdd(cpu.registers[(Hi(MipsWordAtPc(cpu)) \div 32) % 32],
                          SignExtended(Lo(MipsWordAtPc(cpu))))]
             /\ cpu'.pc = WAdd(cpu.pc, <<0, 4>>)
     /\ (/\ op.name = "place" /\ op.args[1] = <<\h0A, \h00, \h22, \h20>>
         /\ op.pre = [Mips_new EXCEPT !.registers[1] = <<0, 5>>]
         /\ op'.name = "step")
          => cpu'.registers[2] = <<0, 15>>]_calls

\* ADDI $1, $1, -1 has been stepped over with register 1 = 5, leaving 4, and,
\* in another run, ADDI $2, $1, 10 with register 1 = 5, leaving 15
C26_Witness ==
  /\ op.name = "step" /\ op.r = "ok" /\ op.pre.arch = "mips"
  /\ Hi(MipsWordAtPc(op.pre)) \div 1024 = 8
  /\ op.pre.registers[1] = <<0, 5>>
  /\ \/ cpu.registers[2] = <<0, 15>> /\ cpu.registers[1] = <<0, 5>>
     \/ cpu.registers[1] = <<0, 4>>
  /\ cpu.pc = <<0, 4>>

(***************************************************************************)
(* Properties of platform detection and of the factories                   *)
(***************************************************************************)
\* the decision table of the specification, in its priority order; "none"
\* where the table names no platform.  A header counts when the file is long
\* enough to hold it: 16 bytes for the NES one, the 21 title bytes at 0x7FC0
\* (at 0x7FB0 in a file shorter than 0x8000) for the SNES one.
DetectionTable(rom_data, extension) ==
  CASE rom_data.len >= 16 /\ HasNesMagic(rom_data) -> "nes"
    [] \/ rom_data.len >= \h8000 /\ SnesTitleNonZero(rom_data, \h7FC0)
       \/ rom_data.len >= \h7FC5 /\ rom_data.len < \h8000
            /\ SnesTitleNonZero(rom_data, \h7FB0) -> "snes"
    [] rom_data.len >= \h808 /\ HasPsxMagic(rom_data) -> "ps1"
    [] extension = "a26" -> "atari2600"
    [] extension = "nes" -> "nes"
    [] extension \in {"smc", "sfc"} -> "snes"
    [] extension \in {"iso", "img"} -> "ps1"
    [] extension = "bin" /\ rom_data.len <= 1048576 -> "atari2600"
    [] extension = "bin" -> "ps1"
    [] OTHER -> "none"

\* C24: Emulator::detect_platform, given the bytes of a file and its
\* extension, returns the platform the decision table names: NES magic, else
\* SNES title, else PS-X EXE at 0x800, else the extension, else for .bin the
\* size; a headerless .bin file of 20 KiB is atari2600.
C24_DetectionFollowsTable ==
  (op.name = "Emulator::detect_platform"
     /\ DetectionTable(op.args[1], ToLower(op.args[2]).s) # "none")
    => (op.r = "ok" /\ op.v = DetectionTable(op.args[1], ToLower(op.args[2]).s))

\* C25: on the cartridge built from a 16 KiB image data, a write of a bank
\* index b in 0..7 to an address of 0x1FF8..0x1FFF followed by a read of
\* cartridge address a below 2048 returns data[b * 2048 + a]; b = 2, a = 0
\* returns data[4096].
C25_BankSwitchSelectsBank ==
  [][(/\ op.name = "Cartridge::write"
      /\ plat.cart.data.len = 16384 /\ plat.rom = <<plat.cart.data>>
      /\ op.args[1] >= \h1FF8 /\ op.args[1] <= \h1FFF
      /\ op.args[2] >= 0 /\ op.args[2] < 8
      /\ op'.name = "Cartridge::read" /\ op'.args[1] < 2048)
       => op'.v = DataGet(plat.cart.data, op.args[2] * 2048 + op'.args[1])]_calls

\* bank 2 was selected through 0x1FFF and address 0 then read data[4096]
C25_Witness ==
  /\ op.name = "Cartridge::read" /\ op.args[1] = 0
  /\ plat.cart.data.len = 16384 /\ plat.cart.current_bank = 2
  /\ op.v = DataGet(plat.rom[1], 4096) /\ op.v = \h12
  /\ calls = MaxCartCalls

\* the image is smaller than the least the platform accepts
Undersized(kind, rom_data) ==
  CASE kind = "atari2600" -> rom_data.len < 2048
    [] kind = "nes" -> rom_data.len < 16
    [] kind = "ps1" -> rom_data.len < 2048
    [] OTHER -> FALSE

\* the iNES header of the image announces more PRG and CHR data than the
\* file holds after the header and the trainer
DeclaresMoreThanHeld(kind, rom_data) ==
  /\ kind = "nes" /\ rom_data.len >= 16 /\ Nes_has_magic(rom_data)
  /\ 16 + ((DataGet(rom_data, 6) \div 4) % 2) * 512 + DataGet(rom_data, 4) * 16384
       + DataGet(rom_data, 5) * 8192 > rom_data.len

\* C27: on every platform, load_rom of an image that is undersized, or whose
\* header declares more data than the file contains, returns an InvalidRom
\* error: it neither panics nor returns Ok.
C27_BadImageIsInvalidRom ==
  (/\ op.name = "load_rom"
   /\ \/ Undersized(op.pre.kind, op.args[1])
      \/ DeclaresMoreThanHeld(op.pre.kind, op.args[1]))
    => (op.r = "err" /\ op.e[1] = "InvalidRom")

\* C28: PlatformFactory::create succeeds for each of the platform names
\* atari2600, nes, snes, ps1, ps2 and ps3.
C28_EveryPlatformIsCreated ==
  (op.name = "PlatformFactory::create"
     /\ op.args[1] \in {Str("atari2600"), Str("nes"), Str("snes"), Str("ps1"),
                        Str("ps2"), Str("ps3")})
    => op.r = "ok"

\* the names the match of each factory accepts, lowercased
KnownCpuNames == {"6502", "mos6502", "68000", "m68k", "mips", "x86", "i386", "arm"}

KnownPlatformNames ==
  {"atari2600", "atari", "nes", "nintendo", "snes", "super nintendo", "ps1",
   "playstation", "ps2", "playstation2", "ps3", "playstation3"}

\* C29: CpuFactory::create and PlatformFactory::create, given a name that is
\* not a supported architecture or platform, fail with the UnsupportedPlatform
\* error.
C29_UnknownNameIsUnsupported ==
  (\/ op.name = "CpuFactory::create" /\ ToLower(op.args[1]).s \notin KnownCpuNames
   \/ op.name = "PlatformFactory::create"
        /\ ToLower(op.args[1]).s \notin KnownPlatformNames)
    => (op.r = "err" /\ op.e[1] = "UnsupportedPlatform")

\* C30: on each of the CPU types 6502, 68000, mips, x86 and arm, a
\* write_memory(0x1000, v) made on the CPU as reset() left it succeeds, and the
\* read_memory(0x1000) that follows it returns v.
C30_WriteThenReadAt0x1000 ==
  [][(/\ op.name = "write_memory" /\ op.args[1] = <<0, \h1000>>
      /\ op.pre.arch # "generic"
      /\ Cpu_reset(op.pre).r = "ok" /\ Cpu_reset(op.pre).c = op.pre
      /\ op'.name = "read_memory" /\ op'.args[1] = <<0, \h1000>>)
       => (op.r = "ok" /\ op'.r = "ok" /\ op'.v = op.args[2])]_calls

(***************************************************************************)
(* Properties of the RIOT register interface                               *)
(***************************************************************************)
\* C31: the RIOT register interface is an index-to-field table without
\* aliasing: in every state read_register(0x80..0x85) returns SWCHA, SWCHB,
\* SWACNT, SWBCNT, the timer and the timer status (0x80 when the timer is
\* enabled), so after update_input read_register(0x80) is the joystick byte
\* the call computed from the buttons held down, and after
\* write_register(0x84, v) the timer is v and is enabled.
C31_RegisterTableIsExplicit ==
  /\ RiaChip_read_register(plat.ria, \h80) = plat.ria.swcha
  /\ RiaChip_read_register(plat.ria, \h81) = plat.ria.swchb
  /\ RiaChip_read_register(plat.ria, \h82) = plat.ria.swacnt
  /\ RiaChip_read_register(plat.ria, \h83) = plat.ria.swbcnt
  /\ RiaChip_read_register(plat.ria, \h84) = plat.ria.timer
  /\ RiaChip_read_register(plat.ria, \h85) = Bit(plat.ria.timer_enabled, \h80)
  /\ op.name = "update_input" =>
       RiaChip_read_register(plat.ria, \h80)
         = Bit("Right" \notin op.args[1], \h80) + Bit("Left" \notin op.args[1], \h40)
           + Bit("Down" \notin op.args[1], \h20) + Bit("Up" \notin op.args[1], \h10)
  /\ (op.name = "write_register" /\ op.args[1] = \h84) =>
       plat.ria.timer = op.args[2] /\ plat.ria.timer_enabled

(***************************************************************************)
(* Properties of the iNES header                                           *)
(***************************************************************************)
HeaderBit(byte, k) == (byte \div (2 ^ k)) % 2 = 1

\* C32: after a load_rom of the NES that succeeded, the cartridge's mapper
\* number is (byte7 & 0xF0) | (byte6 >> 4) of the file, and its mirroring is
\* FourScreen when bit 3 of byte 6 is set, otherwise Vertical when bit 0 of
\* byte 6 is set and Horizontal when it is clear.
C32_HeaderDecoded ==
  (op.name = "load_rom" /\ op.r = "ok") =>
     /\ plat.cart.mapper = (DataGet(op.args[1], 7) \div 16) * 16
                           + (DataGet(op.args[1], 6) \div 16)
     /\ plat.cart.mirroring =
          IF HeaderBit(DataGet(op.args[1], 6), 3) THEN "FourScreen"
          ELSE IF HeaderBit(DataGet(op.args[1], 6), 0) THEN "Vertical"
          ELSE "Horizontal"

(***************************************************************************)
(* Properties of failed calls                                              *)
(***************************************************************************)
\* C33: a CPU step is all-or-nothing: when step() returned an error, the CPU
\* (program counter, registers, flags, memory, cycle counter) is as it was
\* immediately before the call.
C33_FailedStepChangesNothing ==
  (op.name = "step" /\ op.r = "err") => cpu = op.pre

(***************************************************************************)
(* Properties of reset()                                                   *)
(***************************************************************************)
\* C34: reset() is idempotent: a reset() that directly follows a reset()
\* leaves the CPU, and in particular its pc, as the first reset() left it.
C34_ResetIsIdempotent ==
  [][(op.name = "reset" /\ op.r = "ok" /\ op'.name = "reset" /\ op'.r = "ok")
       => (cpu' = cpu /\ Cpu_pc(cpu') = Cpu_pc(cpu))]_calls

(***************************************************************************)
(* Properties of the regions of the bus                                    *)
(***************************************************************************)
\* the device's range holds the address
InRangeOf(device, address) ==
  /\ WLe(device.start_address, address)
  /\ WLt(WSub(address, device.start_address), WInt(device.data.len))

\* C35: each region is served by the device it was registered with: a
\* successful add_device, also one under a name that is already in use for a
\* disjoint range, leaves every address that could be read before reading the
\* same byte, and makes the addresses of the new device's range inside the
\* address space read the bytes that device holds.
C35_RegionServedByItsDevice ==
  [][(op'.name = "add_device" /\ op'.r = "ok") =>
       \A a \in BusAddresses :
         /\ MemoryMapper_read(bus, a).r = "ok" =>
              MemoryMapper_read(bus', a) = MemoryMapper_read(bus, a)
         /\ (InRangeOf(op'.args[2], a) /\ WLt(a, bus'.address_space_size)) =>
              MemoryMapper_read(bus', a) = MemoryDevice_read(op'.args[2], a)]_calls

\* C36: a multi-byte bus write is all-or-nothing: when write16 or write32
\* returned an error, no byte of any device has changed, the bus is as it was
\* before the call.
C36_FailedWordWriteChangesNothing ==
  (op.name \in {"write16", "write32"} /\ op.r = "err") => bus = op.pre

(***************************************************************************)
(* Properties of the program counter                                       *)
(***************************************************************************)
PcRegisterIs(c, value) ==
  IF Cpu_get_register(c, Str("pc")).r = "ok"
  THEN Cpu_get_register(c, Str("pc")).v = value
  ELSE FALSE

\* C37: the register named "pc" and the program counter are one value in
\* every reachable state, for every architecture: get_register("pc") returns
\* pc(), get_registers() holds pc() under "pc", and so a set_pc is observed by
\* get_register("pc") and a set_register("pc", v) by pc(), from where the next
\* step fetches.
C37_PcIsOneValue ==
  /\ PcRegisterIs(cpu, Cpu_pc(cpu))
  /\ Str("pc") \in DOMAIN Cpu_get_registers(cpu)
  /\ Cpu_get_registers(cpu)[Str("pc")] = Cpu_pc(cpu)
  /\ (op.name = "set_register" /\ op.args[1] = Str("pc")) =>
       (op.r = "ok" /\ PcRegisterIs(cpu, Cpu_pc(cpu)))

(***************************************************************************)
(* Properties of a failed ROM load                                         *)
(***************************************************************************)
\* the cartridge (of a platform that has one), the bus regions and devices,
\* and the kind of platform
LoadedState(p) ==
  [cart |-> IF "cart" \in DOMAIN p THEN <<p.cart>> ELSE <<>>,
   memory |-> p.memory,
   kind |-> p.kind]

\* C38: a failed ROM load changes nothing: when load_rom returned an error,
\* the cartridge state, the bus regions and the platform are as they were
\* immediately before the call.
C38_FailedLoadChangesNothing ==
  (op.name = "load_rom" /\ op.r = "err") => LoadedState(plat) = LoadedState(op.pre)

(***************************************************************************)
(* Properties of the instruction fetch                                     *)
(***************************************************************************)
\* C39: for every interpreter and every program counter, also one at or
\* beyond the end of the CPU's memory, step() and reset() return success or
\* an error and never abort, and a step whose instruction fetch lies outside
\* memory returns MemoryAccessViolation carrying the address.
C39_FetchNeverAborts ==
  /\ op.name \in {"step", "reset"} => op.r \in {"ok", "err"}
  /\ (op.name = "step" /\ ~op.pre.halted
        /\ Cpu_read_memory(op.pre, Cpu_pc(op.pre)).r = "err") =>
       (op.r = "err" /\ op.e[1] = "MemoryAccessViolation"
          /\ op.e[2] = Cpu_pc(op.pre))

(***************************************************************************)
(* Properties of the chip counters                                         *)
(***************************************************************************)
\* C40: step() can be called any number of times in succession without a
\* counter leaving its range: no step aborts, the NES PPU has cycle < 341 and
\* scanline < 262, the Atari TIA has cycle < 228 and scanline < 262, the
\* u16 frame counter of the NES APU stays within 0..0xFFFF, and the PPU's
\* frame counter counts whole frames only, so it stays below the number of
\* steps.
C40_CountersStayInRange ==
  /\ op.r # "panic"
  /\ plat.kind = "nes" =>
       /\ plat.ppu.cycle < 341 /\ plat.ppu.scanline < 262
       /\ plat.apu.frame_counter \in 0..(H16 - 1)
       /\ plat.ppu.frame <= plat.cycles
  /\ plat.kind = "atari2600" =>
       plat.tia.cycle < 228 /\ plat.tia.scanline < 262

====
